---- MODULE Spec2Model ----
(***************************************************************************)
(* Model of the RAG / generation core of AI-NeXuS:                         *)
(*   - withRetry / fetchWithRetry         (geminiService, retry executor)  *)
(*   - the rate gate of streamChatResponse / generateImageFromPrompt       *)
(*   - chunkText                          (ragService, chunker)            *)
(*   - findRelevantContext                (ragService, retriever)          *)
(*   - processAndIndexFile, deleteSource  (ragService, indexer)            *)
(*   - streamChatResponse and its two provider paths (geminiService)       *)
(*   - calculateCosineSimilarity on its own (ragService)                   *)
(*   - normalizeGeminiHistory and the OpenAI-compatible message list       *)
(*   - the read loop of streamOpenAIChatResponse on the body's characters  *)
(*   - generateImageFromPrompt with the AI Horde polling (geminiService)   *)
(*   - a call from the rate gate through its retried provider requests     *)
(*   - speak, processQueue and cancel     (ttsService)                     *)
(*   - handleFileUpload and handleDelete  (DocumentLibrary)                *)
(* Each component has its own specification (SpecRetry, SpecGate,          *)
(* SpecChunk, SpecRetrieve, SpecIndex, SpecLibrary, SpecStream,            *)
(* SpecCosine, SpecHistory, SpecEvents, SpecWhole, SpecDispatch,           *)
(* SpecGatedCall, SpecTts, SpecDocuments); the variables of the other      *)
(* components stay at their initial values.                                *)
(***************************************************************************)
EXTENDS Integers, Sequences, FiniteSets, TLC

VARIABLES
    \* ---- withRetry ----
    rMode,      \* "generic": apiCall is any operation; "fetch": apiCall is fetchWithRetry's wrapper
    rMax,       \* maxRetries
    rInit,      \* initialDelay
    rAttempt,   \* attempt
    rPc,        \* "loop" | "sleep" | "returned" | "thrown"
    rHist,      \* outcomes of the calls of apiCall so far, in call order
    rDelays,    \* the delays slept so far, in order
    rEnd,       \* how withRetry ended: a returned value or a thrown error
    \* ---- rate gate ----
    now,        \* Date.now()
    lastRequestTimestamps, \* the module-level Map: key -> timestamp
    cPc,        \* per call: "idle" | "waiting" | "dispatched"
    cKind,      \* per call: "chat" | "image"
    cChar,      \* per call: character.id (chat calls)
    cRate,      \* per call: config.rateLimit (0: absent or 0)
    cArrive,    \* per call: `now` read at the gate
    cLast,      \* per call: lastRequestTime read at the gate
    cLeave,     \* per call: time at which the call left the gate
    \* ---- chunkText ----
    text,       \* the text being chunked (a sequence of characters)
    chunkSize,
    overlap,
    i,          \* the cursor
    chunks,     \* the chunks pushed so far
    starts,     \* the cursor position of each pushed chunk (history)
    kPc,        \* "loop" | "returned"
    \* ---- vector store, deleteSource ----
    store,      \* the vector store: source id -> the chunks saved for it, in store order
    dPc,        \* per source id, deleteSource: "idle" | "deleting" | "deleted" | "failed"
    documents,  \* the ids of the sources listed in the document library
    \* ---- processAndIndexFile ----
    pFile,      \* the content of the file
    pSource,    \* newSource.id (NoSource before the call)
    pPc,        \* "start" | "reading" | "embedding" | "saving" | "returned" | "thrown"
    textChunks,
    pIdx,       \* the loop variable i
    vectorChunks,
    pLog,       \* the progress messages, requests and answers of the job, in order (history)
    pEnd,       \* how the job ended: the returned source or a thrown error
    \* ---- streamChatResponse ----
    sService,   \* character.apiConfig.service (NoConfig: apiConfig is absent)
    sEndpoint,  \* config.apiEndpoint is set
    sApiKey,    \* config.apiKey is set
    sDefaultAi, \* the module's defaultAi exists (API_KEY was set)
    sHistory,   \* the message history
    sPc,        \* "idle" | "fetch" | "read" | "call" | "stream" | "settled"
    sOut,       \* the arguments of onChunk so far, in order
    sSettled,   \* the returned promise: "pending" | "resolved" | "rejected"
    sRequests,  \* requests issued to the provider by the call (history)
    sReads,     \* events taken from the provider's stream
    sFailure,   \* the failure that ended the call, NoEnd if none (history)
    sAdapters,  \* the provider adapters the call has invoked, in order (history)
    \* ---- findRelevantContext ----
    fConfig,    \* character.embeddingConfig is present
    fSources,   \* character.knowledgeSourceIds (NoSourceIds: absent)
    fTopK,      \* topK
    fPc,        \* "start" | "embedding" | "loading" | "done"
    fQuery,     \* queryEmbedding
    fIdx,       \* position of the for-of loop in sourceIds
    allChunks,
    fEmbedCalls, \* calls of generateEmbedding made by the call (history)
    fReads,     \* source ids read from the store by the call, in order (history)
    fDeleted,   \* the source ids whose deleteSource had completed when the call started (history)
    fRaised,    \* the error a collaborator raised into the call, NoEnd if none (history)
    fEnd,       \* how the call ended: null, a context string or a thrown error
    \* ---- calculateCosineSimilarity, called on its own ----
    cosA,       \* the first argument
    cosB,       \* the second argument
    cosPc,      \* "ready" | "done"
    cosSim,     \* the value returned for (cosA, cosB)
    cosSwap,    \* the value returned for (cosB, cosA)
    \* ---- the turn sequence built from a history ----
    nHistory,   \* the message history
    nPath,      \* "gemini" | "openai": the adapter that builds the sequence
    nPc,        \* "ready" | "done"
    nTurns,     \* the sequence handed to the provider
    \* ---- the read loop of streamOpenAIChatResponse, character by character ----
    eLines,     \* the lines the provider sent, in order (history)
    eWire,      \* the characters of the response body
    ePos,       \* how many of them reader.read() has delivered
    eBuffer,    \* buffer
    eOut,       \* the arguments of onChunk so far, in order
    ePc,        \* "reading" | "returned"
    \* ---- generateImageFromPrompt, from the statement after the rate gate on ----
    gService,   \* settings.service (NoConfig: absent)
    gPrompt,    \* the prompt of generateImageFromPrompt, in UTF-16 code units
    gEndpoint,  \* settings.apiEndpoint is set
    gPc,        \* "idle" | "adapter" | "submit" | "sleep" | "poll" | "returned" | "thrown"
    gAdapters,  \* the provider adapters the call has invoked, in order (history)
    gEnd,       \* how the call ended
    attempts,   \* generateAIHordeImage: attempts
    hSubmits,   \* requests made to submit the job (history)
    hPolls,     \* status requests made (history)
    hDelays,    \* the delays of the timers awaited before the status requests (history)
    hSeen,      \* the kinds of answers the status requests have had (history)
    \* ---- the provider requests of the calls that have left the rate gate ----
    qPc,        \* per call: "none" | "inflight" | "backoff" | "done" | "failed"
    qAttempt,   \* per call: withRetry's attempt
    qFrom,      \* per call: the time at which the backoff timer was set
    qSent,      \* per call: the times of its provider requests, in order (history)
    \* ---- ttsService ----
    audioQueue,   \* audioQueue: the utterances waiting, oldest first
    isPlaying,    \* isPlaying
    audioContext, \* audioContext: NoContext (null) or the context in use
    tCreated,     \* how many AudioContexts have been created
    tClosing,     \* the contexts whose close() has not completed yet
    uPc,          \* per utterance: "new" | "queued" | "generating" | "playing" | "cut" |
                  \*                "ended" | "skipped" | "cancelled"
    uCtx,         \* per utterance: the context its source was created on
    uStale,       \* per utterance: cancel() was called while its speech was generated (history)
    \* ---- DocumentLibrary: handleFileUpload and handleDelete ----
    lDocuments,   \* the `documents` prop: the ids of the listed sources
    lIndexed,     \* the ids of the sources that have chunks in the vector store
    upPc,         \* handleFileUpload: "idle" | "reading" | "indexing" | "listed" | "failed"
    upDocuments,  \* the `documents` of the render in which handleFileUpload was called
    dlPc,         \* per source: "idle" | "confirm" | "deleting" | "deleted" | "failed"
    dlDocuments   \* per source: the `documents` of the render in which handleDelete was called

retryVars == <<rMode, rMax, rInit, rAttempt, rPc, rHist, rDelays, rEnd>>
gateVars  == <<now, lastRequestTimestamps, cPc, cKind, cChar, cRate, cArrive, cLast, cLeave>>
chunkVars == <<text, chunkSize, overlap, i, chunks, starts, kPc>>
storeVars == <<store, dPc, documents>>
jobVars   == <<pFile, pSource, pPc, textChunks, pIdx, vectorChunks, pLog, pEnd>>
findVars  == <<fConfig, fSources, fTopK, fPc, fQuery, fIdx, allChunks, fEmbedCalls, fReads, fDeleted, fRaised, fEnd>>
cosVars   == <<cosA, cosB, cosPc, cosSim, cosSwap>>
ragVars   == <<storeVars, findVars, jobVars, cosVars>>
streamVars == <<sService, sEndpoint, sApiKey, sDefaultAi, sHistory, sPc, sOut, sSettled, sRequests, sReads, sFailure, sAdapters>>
histVars  == <<nHistory, nPath, nPc, nTurns>>
eventVars == <<eLines, eWire, ePos, eBuffer, eOut, ePc>>
imageVars == <<gService, gEndpoint, gPrompt, gPc, gAdapters, gEnd, attempts, hSubmits, hPolls, hDelays, hSeen>>
callVars  == <<qPc, qAttempt, qFrom, qSent>>
ttsVars   == <<audioQueue, isPlaying, audioContext, tCreated, tClosing, uPc, uCtx, uStale>>
libVars   == <<lDocuments, lIndexed, upPc, upDocuments, dlPc, dlDocuments>>
genVars   == <<streamVars, histVars, eventVars, imageVars, callVars, ttsVars, libVars>>
vars      == <<retryVars, gateVars, chunkVars, ragVars, genVars>>

Min(a, b) == IF a < b THEN a ELSE b
Max(a, b) == IF a > b THEN a ELSE b

(***************************************************************************)
(* withRetry and fetchWithRetry                                            *)
(***************************************************************************)

\* Bound: maxRetries ranges over 0..RetryBound.
RetryBound == 3

DefaultMaxRetries   == 3
DefaultInitialDelay == 2000
JitterRange         == 1000

\* A message is a sequence of tokens; String.includes(t) is token membership.
\* Undefined stands for "error.message is not a string".
Undefined == <<"#undefined">>

Includes(message, token) == \E n \in 1..Len(message) : message[n] = token

Messages ==
    { <<"Service", "Unavailable">>,
      <<"429", "Too", "Many", "Requests">>,
      <<"quota", "RESOURCE_EXHAUSTED">> }

\* The values apiCall can throw: an Error (message, optional HTTP status as the
\* SDK's ApiError carries), a Response object (no message), or anything else
\* (null, a plain object with or without a status).  status 0: no status.
ErrorShapes ==
    [kind : {"Error"}, message : Messages, status : {0, 429, 503}]
    \cup [kind : {"Response"}, message : {Undefined}, status : {429, 500, 503}]
    \cup [kind : {"Other"}, message : {Undefined}, status : {0, 429}]

\* The error withRetry creates itself after the loop.
ExhaustedError ==
    [kind |-> "Error", message |-> <<"API", "request", "failed", "to", "complete">>, status |-> 0]

Ok(v)   == [ok |-> TRUE, value |-> v]
Fail(e) == [ok |-> FALSE, error |-> e]

HttpStatuses == {200, 429, 500, 503}

\* fetchWithRetry's apiCall: fetch, then a thrown Error for a 429 response,
\* the response itself for every other status.
FetchWrapper(status) ==
    IF status = 429
    THEN Fail([kind |-> "Error", message |-> <<"429", "Too", "Many", "Requests">>, status |-> 0])
    ELSE Ok([kind |-> "Response", status |-> status])

\* fetch itself rejecting (network failure).
FetchRejects ==
    Fail([kind |-> "Error", message |-> <<"Failed", "to", "fetch">>, status |-> 0])

OpOutcomes(mode) ==
    IF mode = "fetch"
    THEN {FetchWrapper(s) : s \in HttpStatuses} \cup {FetchRejects}
    ELSE {Ok([kind |-> "Value", status |-> 0])} \cup {Fail(e) : e \in ErrorShapes}

\* isRateLimitError as an always-true classification (mutant).
IsRateLimitErrorAlways(error) == TRUE

\* The classification in withRetry's catch block.
IsRateLimitError(error) ==
    IF error.message # Undefined
    THEN Includes(error.message, "429") \/ Includes(error.message, "RESOURCE_EXHAUSTED")
    ELSE error.kind = "Response" /\ (error.status = 429 \/ error.status = 503)

\* A delay that does not grow with the attempt (mutant).
BackoffDelayFlat(initialDelay, attempt, jitter) == initialDelay + jitter

\* initialDelay * 2^attempt + Math.random() * 1000
BackoffDelay(initialDelay, attempt, jitter) == initialDelay * (2 ^ attempt) + jitter

\* The draws of Math.random() * 1000 that the model follows.
Jitters == {0, JitterRange - 1}

NoEnd == [kind |-> "none"]

Returned(v)     == [kind |-> "return", value |-> v]
\* `of` is the call of apiCall whose error object is rethrown (0: a new error).
Thrown(e, call) == [kind |-> "throw", error |-> e, of |-> call]

\* return await apiCall()
CallReturns ==
    /\ rPc = "loop"
    /\ rAttempt < rMax
    /\ \E o \in OpOutcomes(rMode) :
        /\ o.ok
        /\ rHist' = Append(rHist, o)
        /\ rEnd' = Returned(o.value)
    /\ rPc' = "returned"
    /\ UNCHANGED <<rMode, rMax, rInit, rAttempt, rDelays>>
    /\ UNCHANGED <<gateVars, chunkVars, ragVars, genVars>>

\* A catch block that sleeps after a rate-limit error on the last attempt
\* too (mutant).
CallFailsRetryUnguarded ==
    /\ rPc = "loop"
    /\ rAttempt < rMax
    /\ \E o \in OpOutcomes(rMode), jitter \in Jitters :
        /\ ~o.ok
        /\ IsRateLimitError(o.error)
        /\ rHist' = Append(rHist, o)
        /\ rDelays' = Append(rDelays, BackoffDelay(rInit, rAttempt, jitter))
    /\ rPc' = "sleep"
    /\ UNCHANGED <<rMode, rMax, rInit, rAttempt, rEnd>>
    /\ UNCHANGED <<gateVars, chunkVars, ragVars, genVars>>

\* catch: a rate-limit error with attempts left: sleep
CallFailsRetry ==
    /\ rPc = "loop"
    /\ rAttempt < rMax
    /\ \E o \in OpOutcomes(rMode), jitter \in Jitters :
        /\ ~o.ok
        /\ IsRateLimitError(o.error)
        /\ ~(rAttempt + 1 >= rMax)
        /\ rHist' = Append(rHist, o)
        /\ rDelays' = Append(rDelays, BackoffDelay(rInit, rAttempt, jitter))
    /\ rPc' = "sleep"
    /\ UNCHANGED <<rMode, rMax, rInit, rAttempt, rEnd>>
    /\ UNCHANGED <<gateVars, chunkVars, ragVars, genVars>>

\* catch: a rate-limit error on the last attempt: throw error
CallFailsFinal ==
    /\ rPc = "loop"
    /\ rAttempt < rMax
    /\ \E o \in OpOutcomes(rMode) :
        /\ ~o.ok
        /\ IsRateLimitError(o.error)
        /\ rAttempt + 1 >= rMax
        /\ rHist' = Append(rHist, o)
        /\ rEnd' = Thrown(o.error, Len(rHist) + 1)
    /\ rPc' = "thrown"
    /\ UNCHANGED <<rMode, rMax, rInit, rAttempt, rDelays>>
    /\ UNCHANGED <<gateVars, chunkVars, ragVars, genVars>>

\* catch: any other error: throw error
CallFailsFatal ==
    /\ rPc = "loop"
    /\ rAttempt < rMax
    /\ \E o \in OpOutcomes(rMode) :
        /\ ~o.ok
        /\ ~IsRateLimitError(o.error)
        /\ rHist' = Append(rHist, o)
        /\ rEnd' = Thrown(o.error, Len(rHist) + 1)
    /\ rPc' = "thrown"
    /\ UNCHANGED <<rMode, rMax, rInit, rAttempt, rDelays>>
    /\ UNCHANGED <<gateVars, chunkVars, ragVars, genVars>>

\* the timer fires: attempt++; continue
RetryWake ==
    /\ rPc = "sleep"
    /\ rAttempt' = rAttempt + 1
    /\ rPc' = "loop"
    /\ UNCHANGED <<rMode, rMax, rInit, rHist, rDelays, rEnd>>
    /\ UNCHANGED <<gateVars, chunkVars, ragVars, genVars>>

\* the while condition fails: throw new Error('API request failed ...')
LoopExhausted ==
    /\ rPc = "loop"
    /\ ~(rAttempt < rMax)
    /\ rEnd' = Thrown(ExhaustedError, 0)
    /\ rPc' = "thrown"
    /\ UNCHANGED <<rMode, rMax, rInit, rAttempt, rHist, rDelays>>
    /\ UNCHANGED <<gateVars, chunkVars, ragVars, genVars>>

RetryNext ==
    \/ CallReturns
    \/ CallFailsRetry
    \/ CallFailsFinal
    \/ CallFailsFatal
    \/ RetryWake
    \/ LoopExhausted

(***************************************************************************)
(* Properties of withRetry and fetchWithRetry (checked under SpecRetry)    *)
(***************************************************************************)

\* The specified classification: an error is transient iff it carries HTTP
\* status 429, or its message contains "429" or "RESOURCE_EXHAUSTED", or it
\* is an HTTP 503.
TransientPerSpec(error) ==
    \/ error.status = 429
    \/ error.status = 503
    \/ /\ error.message # Undefined
       /\ Includes(error.message, "429") \/ Includes(error.message, "RESOURCE_EXHAUSTED")

RetryEnded == rPc \in {"returned", "thrown"}

FailedAt(k) == ~rHist[k].ok

\* C1: with maxRetries >= 1, when every call of op failed with a transient
\* error, op was called exactly maxRetries times, withRetry slept exactly
\* maxRetries - 1 times and rethrew the error object of the last call.
C1_TransientRetriedToBudget ==
    ( /\ RetryEnded
      /\ rMax >= 1
      /\ Len(rHist) >= 1
      /\ \A k \in 1..Len(rHist) : FailedAt(k) /\ TransientPerSpec(rHist[k].error) )
    => /\ Len(rHist) = rMax
       /\ Len(rDelays) = rMax - 1
       /\ rEnd = Thrown(rHist[Len(rHist)].error, Len(rHist))

\* C2: a call of op that fails with a fatal (non-transient) error is the last
\* call: withRetry has thrown that very error, op was called exactly k times,
\* and no sleep followed the failure (one sleep after each of the k - 1
\* earlier calls, none after call k).
C2_FatalRethrownAtOnce ==
    \A k \in 1..Len(rHist) :
        (FailedAt(k) /\ ~TransientPerSpec(rHist[k].error))
        => /\ k = Len(rHist)
           /\ rPc = "thrown"
           /\ rEnd = Thrown(rHist[k].error, k)
           /\ Len(rDelays) = k - 1
           /\ rAttempt = k - 1

\* C2 (witness): a fatal error at the second call, after one retried failure.
C2_FatalAtSecondCall ==
    /\ Len(rHist) = 2
    /\ FailedAt(2)
    /\ ~TransientPerSpec(rHist[2].error)
    /\ rPc = "thrown"
    /\ Len(rDelays) = 1

\* C3: a failure with attempts left is retried (a sleep follows it) if and
\* only if it is transient by the specified classification, whatever the
\* shape of the thrown value.
C3_ClassifiedAsSpecified ==
    \A k \in 1..Len(rHist) :
        (FailedAt(k) /\ k < rMax)
        => ((Len(rDelays) >= k) <=> TransientPerSpec(rHist[k].error))

\* C4: through fetchWithRetry, an HTTP 503 response received with attempts
\* left is retried with backoff, as a 429 is, and not returned to the adapter.
C4_Http503Retried ==
    rMode = "fetch"
    => \A k \in 1..Len(rHist) :
          ( /\ k < rMax
            /\ rHist[k] \in {FetchWrapper(503), FetchWrapper(429)} )
          => /\ FailedAt(k)
             /\ Len(rDelays) >= k

\* The sleep after failed call k is initialDelay * 2^(k-1) plus a jitter in
\* [0, 1000); one sleep per failed call that was retried.
DelaysAsComputed ==
    /\ Len(rDelays) <= Len(rHist)
    /\ \A k \in 1..Len(rDelays) :
          /\ FailedAt(k)
          /\ \E jitter \in 0..(JitterRange - 1) :
                rDelays[k] = rInit * (2 ^ (k - 1)) + jitter

DelaysIncrease == \A k \in 1..(Len(rDelays) - 1) : rDelays[k] < rDelays[k + 1]

\* C29 (as stated): the delays are initialDelay * 2^k + jitter and strictly
\* increasing, for every initialDelay > 0 and every jitter draw.
C29_DelaysAlwaysIncrease ==
    rInit > 0 => (DelaysAsComputed /\ DelaysIncrease)

\* C29 (amended): the sleep after failed call k+1 is initialDelay * 2^k plus
\* a jitter in [0, 1000); the successive delays are strictly increasing
\* whenever initialDelay is at least the jitter range (1000 ms).
C29_DelaysIncreaseAboveJitter ==
    /\ DelaysAsComputed
    /\ rInit >= JitterRange => DelaysIncrease

\* C29 (witness): with initialDelay = 1000 the first sleep drew the largest
\* jitter and the second the smallest: 1999 ms, then 2000 ms.
C29_ClosestDelays ==
    /\ rInit = JitterRange
    /\ Len(rDelays) = 2
    /\ rDelays[1] = rInit + (JitterRange - 1)
    /\ rDelays[2] = 2 * rInit

\* withRetry ended with a result of op or with an error thrown by op.
EndedByOp ==
    \/ rEnd.kind = "return" /\ rHist[Len(rHist)] = Ok(rEnd.value)
    \/ rEnd.kind = "throw" /\ rEnd.of = Len(rHist) /\ rHist[Len(rHist)] = Fail(rEnd.error)

\* C30 (as stated): for every maxRetries, an execution that has ended called
\* op at least once and ended by returning a result of op or by rethrowing
\* an error thrown by op.
C30_ExhaustedUnreachable ==
    RetryEnded => (Len(rHist) >= 1 /\ EndedByOp)

\* C30 (amended): for every maxRetries >= 1 an execution that has ended
\* called op at least once and ended with the result or the error of its
\* last call of op; with maxRetries = 0 the loop body never runs, op is never
\* called and withRetry throws its own "failed to complete" error.
C30_ExhaustedOnlyWithoutBudget ==
    RetryEnded
    => /\ rMax >= 1 => (Len(rHist) >= 1 /\ EndedByOp)
       /\ rMax = 0 => (Len(rHist) = 0 /\ rEnd = Thrown(ExhaustedError, 0))

\* C30 (witness): with maxRetries = 3, three transient failures: the error of
\* the third call was rethrown.
C30_LastErrorRethrown ==
    /\ rMax = 3
    /\ rPc = "thrown"
    /\ Len(rHist) = 3
    /\ rEnd.of = 3

(***************************************************************************)
(* The rate gate of streamChatResponse and generateImageFromPrompt         *)
(***************************************************************************)

\* Bounds: number of calls, largest rateLimit, ticks of the clock followed.
NCalls  == 3
MaxRate == 2
Horizon == 3

Calls == 1..NCalls
Rates == 0..MaxRate

\* Date.now() is far larger than any configured rateLimit; the clock of the
\* model starts above the largest rate to keep that order.
Epoch == MaxRate + 1

CharacterIds == {"char-1", "char-2"}
ImageKey     == "default-image-generator"
Keys         == CharacterIds \cup {ImageKey}
NoChar       == "-"

\* One key for every request (mutant).
RateKeyGlobal(kind, char) == ImageKey

\* characterId = character.id / pluginId = 'default-image-generator'
RateKey(kind, char) == IF kind = "image" THEN ImageKey ELSE char

\* lastRequestTimestamps.get(key) || 0
LastRequestTime(key) ==
    IF key \in DOMAIN lastRequestTimestamps /\ lastRequestTimestamps[key] # 0
    THEN lastRequestTimestamps[key]
    ELSE 0

\* lastRequestTimestamps.set(key, t)
MapSet(key, t) ==
    [k \in DOMAIN lastRequestTimestamps \cup {key} |->
        IF k = key THEN t ELSE lastRequestTimestamps[k]]

\* `elapsed <= rateLimit` (mutant).
MustWaitInclusive(rate, elapsed) == elapsed <= rate

\* if (elapsed < rateLimit)
MustWait(rate, elapsed) == elapsed < rate

\* A delay one millisecond short (mutant).
GateDelayShort(rate, elapsed) == rate - elapsed - 1

\* const delay = rateLimit - elapsed
GateDelay(rate, elapsed) == rate - elapsed

\* The calls a gate step may draw: kind, character and rateLimit.
CallInputs ==
    [kind : {"chat"}, char : CharacterIds, rate : Rates]
    \cup [kind : {"image"}, char : {NoChar}, rate : Rates]

\* Calls are numbered in the order in which they start.
MayStart(c) == cPc[c] = "idle" /\ (IF c = 1 THEN TRUE ELSE cPc[c - 1] # "idle")

\* Time passes.
Tick ==
    /\ now < Epoch + Horizon
    /\ now' = now + 1
    /\ UNCHANGED <<lastRequestTimestamps, cPc, cKind, cChar, cRate, cArrive, cLast, cLeave>>
    /\ UNCHANGED <<retryVars, chunkVars, ragVars, genVars>>

\* The skipped gate still records the request (mutant).
GateSkipRecords(c) ==
    /\ MayStart(c)
    /\ \E in \in CallInputs :
        /\ ~(in.rate > 0)
        /\ cKind' = [cKind EXCEPT ![c] = in.kind]
        /\ cChar' = [cChar EXCEPT ![c] = in.char]
        /\ cRate' = [cRate EXCEPT ![c] = in.rate]
        /\ lastRequestTimestamps' = MapSet(RateKey(in.kind, in.char), now)
    /\ cArrive' = [cArrive EXCEPT ![c] = now]
    /\ cLeave' = [cLeave EXCEPT ![c] = now]
    /\ cPc' = [cPc EXCEPT ![c] = "dispatched"]
    /\ UNCHANGED <<now, cLast>>
    /\ UNCHANGED <<retryVars, chunkVars, ragVars, genVars>>

\* rateLimit absent or 0: the gate is skipped.
GateSkip(c) ==
    /\ MayStart(c)
    /\ \E in \in CallInputs :
        /\ ~(in.rate > 0)
        /\ cKind' = [cKind EXCEPT ![c] = in.kind]
        /\ cChar' = [cChar EXCEPT ![c] = in.char]
        /\ cRate' = [cRate EXCEPT ![c] = in.rate]
    /\ cArrive' = [cArrive EXCEPT ![c] = now]
    /\ cLeave' = [cLeave EXCEPT ![c] = now]
    /\ cPc' = [cPc EXCEPT ![c] = "dispatched"]
    /\ UNCHANGED <<now, lastRequestTimestamps, cLast>>
    /\ UNCHANGED <<retryVars, chunkVars, ragVars, genVars>>

\* elapsed >= rateLimit: the timestamp is recorded at once.
GatePass(c) ==
    /\ MayStart(c)
    /\ \E in \in CallInputs :
        LET key == RateKey(in.kind, in.char)
            lastRequestTime == LastRequestTime(key)
            elapsed == now - lastRequestTime
        IN  /\ in.rate > 0
            /\ ~MustWait(in.rate, elapsed)
            /\ cKind' = [cKind EXCEPT ![c] = in.kind]
            /\ cChar' = [cChar EXCEPT ![c] = in.char]
            /\ cRate' = [cRate EXCEPT ![c] = in.rate]
            /\ cLast' = [cLast EXCEPT ![c] = lastRequestTime]
            /\ lastRequestTimestamps' = MapSet(key, now)
    /\ cArrive' = [cArrive EXCEPT ![c] = now]
    /\ cLeave' = [cLeave EXCEPT ![c] = now]
    /\ cPc' = [cPc EXCEPT ![c] = "dispatched"]
    /\ UNCHANGED now
    /\ UNCHANGED <<retryVars, chunkVars, ragVars, genVars>>

\* elapsed < rateLimit: await setTimeout(delay)
GateSuspend(c) ==
    /\ MayStart(c)
    /\ \E in \in CallInputs :
        LET key == RateKey(in.kind, in.char)
            lastRequestTime == LastRequestTime(key)
            elapsed == now - lastRequestTime
        IN  /\ in.rate > 0
            /\ MustWait(in.rate, elapsed)
            /\ cKind' = [cKind EXCEPT ![c] = in.kind]
            /\ cChar' = [cChar EXCEPT ![c] = in.char]
            /\ cRate' = [cRate EXCEPT ![c] = in.rate]
            /\ cLast' = [cLast EXCEPT ![c] = lastRequestTime]
    /\ cArrive' = [cArrive EXCEPT ![c] = now]
    /\ cPc' = [cPc EXCEPT ![c] = "waiting"]
    /\ UNCHANGED <<now, lastRequestTimestamps, cLeave>>
    /\ UNCHANGED <<retryVars, chunkVars, ragVars, genVars>>

\* The timestamp of the arrival is recorded instead of Date.now() (mutant).
GateWakeAtArrival(c) ==
    /\ cPc[c] = "waiting"
    /\ now >= cArrive[c] + GateDelay(cRate[c], cArrive[c] - cLast[c])
    /\ lastRequestTimestamps' = MapSet(RateKey(cKind[c], cChar[c]), cArrive[c])
    /\ cLeave' = [cLeave EXCEPT ![c] = now]
    /\ cPc' = [cPc EXCEPT ![c] = "dispatched"]
    /\ UNCHANGED <<now, cKind, cChar, cRate, cArrive, cLast>>
    /\ UNCHANGED <<retryVars, chunkVars, ragVars, genVars>>

\* The timer fires (not before `delay` has passed):
\* lastRequestTimestamps.set(key, Date.now())
GateWake(c) ==
    /\ cPc[c] = "waiting"
    /\ now >= cArrive[c] + GateDelay(cRate[c], cArrive[c] - cLast[c])
    /\ lastRequestTimestamps' = MapSet(RateKey(cKind[c], cChar[c]), now)
    /\ cLeave' = [cLeave EXCEPT ![c] = now]
    /\ cPc' = [cPc EXCEPT ![c] = "dispatched"]
    /\ UNCHANGED <<now, cKind, cChar, cRate, cArrive, cLast>>
    /\ UNCHANGED <<retryVars, chunkVars, ragVars, genVars>>

GateNext ==
    \/ Tick
    \/ \E c \in Calls : GateSkip(c)
    \/ \E c \in Calls : GatePass(c)
    \/ \E c \in Calls : GateSuspend(c)
    \/ \E c \in Calls : GateWake(c)

(***************************************************************************)
(* Properties of the rate gate (checked under SpecGate)                    *)
(***************************************************************************)

\* The key a call is accounted to: its character for a chat request, the
\* image plugin for an image request.
OwnKey(kind, char) == IF kind = "image" THEN ImageKey ELSE char

Gated(c) == cPc[c] # "idle" /\ cRate[c] > 0

LeftGate(c) == cPc[c] = "dispatched" /\ cRate[c] > 0

SameCharacter(a, b) ==
    /\ cKind[a] = "chat"
    /\ cKind[b] = "chat"
    /\ cChar[a] = cChar[b]
    /\ cRate[a] = cRate[b]

\* C5 (as claimed): any two chat calls for the same character id with the same
\* rateLimit m > 0 leave the gate at least m apart, under every interleaving.
C5_MinIntervalEveryInterleaving ==
    \A a, b \in Calls :
        (a # b /\ LeftGate(a) /\ LeftGate(b) /\ SameCharacter(a, b) /\ cLeave[a] <= cLeave[b])
        => cLeave[b] - cLeave[a] >= cRate[a]

\* C5 (amended): two chat calls for the same character id with the same
\* rateLimit m > 0, the second of which reaches the gate after the first has
\* left it, leave the gate at least m apart.
C5_MinIntervalSequentialCalls ==
    \A a, b \in Calls :
        (a # b /\ LeftGate(a) /\ LeftGate(b) /\ SameCharacter(a, b) /\ cLeave[a] < cArrive[b])
        => cLeave[b] - cLeave[a] >= cRate[a]

\* C5 (witness): a call that reached the gate after an earlier call for the
\* same character had left it, was suspended, and has left the gate.
C5_SequentialCallSuspended ==
    \E a, b \in Calls :
        /\ a # b /\ LeftGate(a) /\ LeftGate(b) /\ SameCharacter(a, b)
        /\ cLeave[a] < cArrive[b]
        /\ cLeave[b] > cArrive[b]

\* C6: a gated call that reads a recorded timestamp t at time t' with
\* t' - t < m is suspended for at least m - (t' - t) before it is dispatched;
\* with t' - t >= m it is not suspended at all.
C6_SecondCallSuspended ==
    \A c \in Calls :
        (Gated(c) /\ cLast[c] # 0)
        => LET gap == cArrive[c] - cLast[c]
           IN  IF gap < cRate[c]
               THEN \/ cPc[c] = "waiting"
                    \/ cLeave[c] - cArrive[c] >= cRate[c] - gap
               ELSE cPc[c] = "dispatched" /\ cLeave[c] = cArrive[c]

\* C6 (witness): a call that arrived less than m after the recorded timestamp
\* and was dispatched after its suspension.
C6_SuspendedThenDispatched ==
    \E c \in Calls :
        /\ LeftGate(c)
        /\ cLast[c] # 0
        /\ cArrive[c] - cLast[c] < cRate[c]
        /\ cLeave[c] > cArrive[c]

\* C7: a step of a call for key A leaves the entry of every other key B
\* unchanged, and the timestamp the call gates on (hence its delay) is the
\* one recorded for A.
C7_KeysIndependent ==
    [][ \A c \in Calls :
          (cPc'[c] # cPc[c])
          => LET own == OwnKey(cKind'[c], cChar'[c])
             IN  /\ \A k \in Keys \ {own} :
                       /\ (k \in DOMAIN lastRequestTimestamps') = (k \in DOMAIN lastRequestTimestamps)
                       /\ k \in DOMAIN lastRequestTimestamps
                          => lastRequestTimestamps'[k] = lastRequestTimestamps[k]
                 /\ (cPc[c] = "idle" /\ cRate'[c] > 0)
                    => /\ cLast'[c] = IF own \in DOMAIN lastRequestTimestamps
                                      THEN lastRequestTimestamps[own] ELSE 0
                       /\ (cPc'[c] = "waiting") = (now - cLast'[c] < cRate'[c])
      ]_vars

\* C7 (witness): while a call for key A is suspended behind an earlier call
\* for A, a gated call for another key B arrives and is dispatched at once.
C7_BurstDoesNotDelayOtherKey ==
    \E a1, a2, b \in Calls :
        /\ LeftGate(a1)
        /\ cPc[a2] = "waiting"
        /\ OwnKey(cKind[a1], cChar[a1]) = OwnKey(cKind[a2], cChar[a2])
        /\ OwnKey(cKind[b], cChar[b]) # OwnKey(cKind[a2], cChar[a2])
        /\ LeftGate(b)
        /\ cArrive[b] >= cArrive[a2]
        /\ cLeave[b] = cArrive[b]

\* C31: a call with rateLimit > 0 that leaves the gate (at once or after its
\* suspension) records the time at which it leaves as the timestamp of its
\* key; no entry is ever removed and, the clock not running backwards, the
\* timestamp of a key never decreases.
C31_TimestampIsTimeOfLeaving ==
    [][ /\ now' >= now
           => /\ DOMAIN lastRequestTimestamps \subseteq DOMAIN lastRequestTimestamps'
              /\ \A k \in DOMAIN lastRequestTimestamps :
                    lastRequestTimestamps'[k] >= lastRequestTimestamps[k]
        /\ \A c \in Calls :
              (cPc[c] # "dispatched" /\ cPc'[c] = "dispatched" /\ cRate'[c] > 0)
              => LET own == OwnKey(cKind'[c], cChar'[c])
                 IN  /\ own \in DOMAIN lastRequestTimestamps'
                     /\ lastRequestTimestamps'[own] = now'
                     /\ cLeave'[c] = now'
      ]_vars

\* C31 (witness): a call that was suspended has left the gate and the
\* timestamp of its key is the time of leaving, later than its arrival.
C31_RecordedAfterSuspension ==
    \E c \in Calls :
        /\ LeftGate(c)
        /\ cLeave[c] > cArrive[c]
        /\ OwnKey(cKind[c], cChar[c]) \in DOMAIN lastRequestTimestamps
        /\ lastRequestTimestamps[OwnKey(cKind[c], cChar[c])] = cLeave[c]

\* C32: a call whose rateLimit is 0 or absent is dispatched at the time it
\* arrives, never suspended, and leaves every entry of lastRequestTimestamps
\* as it was: none is created, none updated.
C32_UngatedCallLeavesNoTrace ==
    [][ \A c \in Calls :
          (cPc[c] = "idle" /\ cPc'[c] # "idle" /\ ~(cRate'[c] > 0))
          => /\ cPc'[c] = "dispatched"
             /\ cLeave'[c] = cArrive'[c]
             /\ lastRequestTimestamps' = lastRequestTimestamps
      ]_vars

\* C32 (witness): an ungated call was dispatched after a gated call for the
\* same key had left the gate, and the timestamp of the key is still the one
\* the gated call recorded.
C32_UngatedAfterGated ==
    \E a, b \in Calls :
        /\ LeftGate(a)
        /\ cPc[b] = "dispatched" /\ cRate[b] = 0
        /\ OwnKey(cKind[a], cChar[a]) = OwnKey(cKind[b], cChar[b])
        /\ cArrive[b] > cLeave[a]
        /\ lastRequestTimestamps[OwnKey(cKind[a], cChar[a])] = cLeave[a]

(***************************************************************************)
(* chunkText                                                               *)
(***************************************************************************)

\* Bounds: longest text, largest chunkSize, and the number of chunks after
\* which a run that does not end is no longer followed.
MaxLen    == 8
MaxChunk  == 4
MaxChunks == 10

DefaultChunkSize == 1000
DefaultOverlap   == 200

\* chunkText never reads the characters, so a text is taken with pairwise
\* distinct characters: character n of the text is n.
TextOfLength(n) == [k \in 1..n |-> k]

\* The document of the end-to-end case.
LongDocument == TextOfLength(2500)

\* String.prototype.slice(a, b), with 0-based positions.
Slice(t, a, b) ==
    LET len  == Len(t)
        from == IF a < 0 THEN Max(len + a, 0) ELSE Min(a, len)
        to   == IF b < 0 THEN Max(len + b, 0) ELSE Min(b, len)
    IN  IF from < to THEN SubSeq(t, from + 1, to) ELSE <<>>

\* The cursor without the exit rule (mutant).
NextCursorNoExit(cursor, size, lap, len) == cursor + (size - lap)

\* The exit rule tested against chunkSize (mutant).
NextCursorEager(cursor, size, lap, len) ==
    IF cursor + (size - lap) + size >= len THEN len ELSE cursor + (size - lap)

\* i += chunkSize - overlap; if (i + overlap >= text.length) i = text.length
NextCursor(cursor, size, lap, len) ==
    IF cursor + (size - lap) + lap >= len THEN len ELSE cursor + (size - lap)

\* One iteration of the while loop.
ChunkStep ==
    /\ kPc = "loop"
    /\ i < Len(text)
    /\ Len(chunks) < MaxChunks
    /\ LET end == Min(i + chunkSize, Len(text))
       IN  chunks' = Append(chunks, Slice(text, i, end))
    /\ starts' = Append(starts, i)
    /\ i' = NextCursor(i, chunkSize, overlap, Len(text))
    /\ UNCHANGED <<text, chunkSize, overlap, kPc>>
    /\ UNCHANGED <<retryVars, gateVars, ragVars, genVars>>

\* The while condition fails: return chunks.
ChunkReturn ==
    /\ kPc = "loop"
    /\ ~(i < Len(text))
    /\ kPc' = "returned"
    /\ UNCHANGED <<text, chunkSize, overlap, i, chunks, starts>>
    /\ UNCHANGED <<retryVars, gateVars, ragVars, genVars>>

ChunkNext ==
    \/ ChunkStep
    \/ ChunkReturn

(***************************************************************************)
(* Properties of chunkText (checked under SpecChunk)                       *)
(***************************************************************************)

ValidParams == 0 < overlap /\ overlap < chunkSize

\* Character position p (1-based) lies in chunk k.
InChunk(p, k) == starts[k] < p /\ p <= starts[k] + Len(chunks[k])

\* C8: with 0 < overlap < chunkSize, the returned chunks cover the text
\* without gaps, are in document order, and each chunk is the slice of the
\* text that starts at its cursor position.
C8_ChunksCoverText ==
    (kPc = "returned" /\ ValidParams)
    => /\ Len(starts) = Len(chunks)
       /\ \A p \in 1..Len(text) : \E k \in 1..Len(chunks) : InChunk(p, k)
       /\ \A k \in 1..Len(chunks) :
             /\ k > 1 => starts[k - 1] < starts[k]
             /\ chunks[k] = SubSeq(text, starts[k] + 1, Min(starts[k] + chunkSize, Len(text)))

\* C8 (witness): a returned chunking of at least three overlapping chunks
\* whose last chunk is a partial one.
C8_ThreeChunksPartialTail ==
    /\ kPc = "returned"
    /\ ValidParams
    /\ Len(chunks) >= 3
    /\ Len(chunks[Len(chunks)]) < chunkSize

IsLongDocumentCase ==
    /\ kPc = "returned"
    /\ Len(text) = 2500
    /\ chunkSize = 1000
    /\ overlap = 200

\* C9 (as claimed): the 2500-character document with chunkSize 1000 and
\* overlap 200 yields exactly 4 chunks, at cursors 0, 800, 1600 and 2400.
C9_LongDocumentFourChunks ==
    IsLongDocumentCase
    => /\ Len(chunks) = 4
       /\ starts = <<0, 800, 1600, 2400>>

\* C9 (amended): it yields exactly 3 chunks, text[0:1000], text[800:1800] and
\* text[1600:2500]: once the third chunk has reached the end of the text the
\* cursor is moved to the end and no chunk is cut at 2400.
C9_LongDocumentThreeChunks ==
    IsLongDocumentCase
    => /\ Len(chunks) = 3
       /\ starts = <<0, 800, 1600>>
       /\ chunks[1] = SubSeq(text, 1, 1000)
       /\ chunks[2] = SubSeq(text, 801, 1800)
       /\ chunks[3] = SubSeq(text, 1601, 2500)

\* C9 (witness): chunkText has returned for the 2500-character document.
C9_LongDocumentChunked ==
    /\ IsLongDocumentCase
    /\ text = LongDocument
    /\ Len(chunks) > 0

\* C10: when chunkSize > overlap >= 0 is violated, chunkText produces no
\* chunk and does not return normally (it fails with a configuration error).
C10_InvalidParamsRejected ==
    (overlap >= chunkSize \/ overlap < 0)
    => /\ chunks = <<>>
       /\ kPc # "returned"

\* chunkSize > overlap >= 0.
CursorAdvances == 0 <= overlap /\ overlap < chunkSize

\* Emitted chunk k ends at the end of the text.
ReachesEnd(k) == starts[k] + Len(chunks[k]) = Len(text)

\* C11 (as claimed): for every text and every chunkSize > overlap >= 0, the
\* returned chunking has exactly one chunk that ends at the end of the text,
\* and it is the last one.
C11_ExactlyOneChunkReachesEnd ==
    (kPc = "returned" /\ CursorAdvances)
    => /\ Len(chunks) >= 1
       /\ \A k \in 1..Len(chunks) : ReachesEnd(k) <=> k = Len(chunks)

\* C11 (amended): for every chunkSize > overlap >= 0 chunkText terminates;
\* every loop iteration strictly increases the cursor and moves it to the end
\* of the text exactly when the chunk it emits reaches the end, so a chunk
\* that reaches the end is the last one and ends the loop; for a non-empty
\* text exactly one emitted chunk ends at the end of the text, and for the
\* empty text no chunk is emitted at all.
C11_TerminatesAtChunkReachingEnd ==
    /\ (CursorAdvances /\ kPc = "loop") ~> (kPc = "returned")
    /\ [][(CursorAdvances /\ ChunkStep)
            => (/\ i' > i
                /\ (i' = Len(text)) <=> (i + Len(chunks'[Len(chunks')]) = Len(text)))]_vars
    /\ [](CursorAdvances
            => \A k \in 1..Len(chunks) :
                  ReachesEnd(k) => (k = Len(chunks) /\ i = Len(text)))
    /\ []((kPc = "returned" /\ CursorAdvances)
            => IF text = <<>>
               THEN chunks = <<>>
               ELSE /\ Len(chunks) >= 1
                    /\ ReachesEnd(Len(chunks)))

\* C11 (witness): a chunking without overlap has returned with at least two
\* chunks, the last of them a partial one that ends at the end of the text.
C11_NoOverlapPartialTail ==
    /\ kPc = "returned"
    /\ overlap = 0
    /\ Len(chunks) >= 2
    /\ Len(chunks[Len(chunks)]) < chunkSize
    /\ ReachesEnd(Len(chunks))

(***************************************************************************)
(* The vector store, deleteSource and findRelevantContext                  *)
(***************************************************************************)

\* Bounds: the number of chunks in the store when the call starts, and the
\* largest topK.
MaxStored == 3
MaxTopK   == 3

DefaultTopK == 3

SourceIds == {"source-1", "source-2"}

\* character.knowledgeSourceIds is absent.
NoSourceIds == <<"#absent">>

\* The lists the character form builds: a source id is appended only when
\* the list does not include it.
SourceIdLists ==
    {<<>>} \cup {<<s>> : s \in SourceIds}
           \cup {<<q[1], q[2]>> : q \in {r \in SourceIds \X SourceIds : r[1] # r[2]}}

\* Embeddings.  The norms of these vectors are perfect squares, so that
\* Math.sqrt is exact on them.
ChunkVectors == {<<1, 0>>, <<0, 1>>, <<-1, 0>>, <<2, 0>>}
QueryVectors == {<<1, 0>>, <<3, 4>>, <<0, 0>>}

\* Characters are numbers; the characters of documents are positive.  In the
\* separator "\n\n---\n\n" the newline is 0 and the dash is -1.
Separator == <<0, 0, -1, -1, -1, 0, 0>>

SourceNo(s) == IF s = "source-1" THEN 1 ELSE 2

\* Chunk k of source s as saved by an indexing job.
VectorChunk(s, k, content, embedding) ==
    [id |-> <<s, k>>, sourceId |-> s, content |-> content, embedding |-> embedding]

\* The stores an earlier indexing can have left for one source: n chunks with
\* pairwise distinct one-character contents.
StoredSequences(s, n) ==
    { [k \in 1..n |-> VectorChunk(s, k, <<10 * SourceNo(s) + k>>, e[k])] :
        e \in [1..n -> ChunkVectors] }

Stores ==
    { st \in [SourceIds -> UNION {StoredSequences(s, n) : s \in SourceIds, n \in 0..MaxStored}] :
        /\ \A s \in SourceIds : \A k \in 1..Len(st[s]) : st[s][k].sourceId = s
        /\ Len(st["source-1"]) + Len(st["source-2"]) <= MaxStored }

\* What generateEmbedding and the store can raise.
EmbeddingErrors ==
    { [kind |-> "Error", message |-> <<"Embedding", "API", "error">>, status |-> 0],
      [kind |-> "Error", message |-> <<"429", "Too", "Many", "Requests">>, status |-> 0] }

StoreErrors ==
    { [kind |-> "Error", message |-> <<"Database", "error">>, status |-> 0] }

RECURSIVE SumProducts(_, _, _)
SumProducts(a, b, n) == IF n = 0 THEN 0 ELSE SumProducts(a, b, n - 1) + a[n] * b[n]

\* Math.sqrt on a perfect square.
Sqrt(n) == CHOOSE r \in 0..n : r * r = n

\* A similarity is the exact quotient num / den, den > 0.
ZeroSimilarity == [num |-> 0, den |-> 1]

\* The function without its guard on zero norms (mutant).
calculateCosineSimilarityUnguarded(vecA, vecB) ==
    IF Len(vecA) # Len(vecB) \/ Len(vecA) = 0
    THEN ZeroSimilarity
    ELSE [num |-> SumProducts(vecA, vecB, Len(vecA)),
          den |-> Sqrt(SumProducts(vecA, vecA, Len(vecA))) * Sqrt(SumProducts(vecB, vecB, Len(vecB)))]

calculateCosineSimilarity(vecA, vecB) ==
    IF Len(vecA) # Len(vecB) \/ Len(vecA) = 0
    THEN ZeroSimilarity
    ELSE LET dotProduct == SumProducts(vecA, vecB, Len(vecA))
             normA      == SumProducts(vecA, vecA, Len(vecA))
             normB      == SumProducts(vecB, vecB, Len(vecB))
         IN  IF normA = 0 \/ normB = 0
             THEN ZeroSimilarity
             ELSE [num |-> dotProduct, den |-> Sqrt(normA) * Sqrt(normB)]

\* x < y on similarities.
SimLess(x, y) == x.num * y.den < y.num * x.den

\* The comparator sorting in ascending order (mutant).
ComesAfterAscending(a, b) == SimLess(b.similarity, a.similarity)

\* (a, b) => b.similarity - a.similarity is positive: a is sorted after b.
ComesAfter(a, b) == SimLess(a.similarity, b.similarity)

\* Array.prototype.sort is stable: an element is placed behind the elements
\* the comparator does not put after it.
InsertSorted(sorted, x) ==
    LET ahead == Cardinality({j \in 1..Len(sorted) : ~ComesAfter(sorted[j], x)})
    IN  SubSeq(sorted, 1, ahead) \o <<x>> \o SubSeq(sorted, ahead + 1, Len(sorted))

RECURSIVE SortBySimilarity(_)
SortBySimilarity(seq) ==
    IF seq = <<>>
    THEN <<>>
    ELSE InsertSorted(SortBySimilarity(SubSeq(seq, 1, Len(seq) - 1)), seq[Len(seq)])

\* Array.prototype.join on strings.
RECURSIVE Join(_, _)
Join(strings, sep) ==
    IF strings = <<>> THEN <<>>
    ELSE IF Len(strings) = 1 THEN strings[1]
    ELSE Join(SubSeq(strings, 1, Len(strings) - 1), sep) \o sep \o strings[Len(strings)]

\* character.knowledgeSourceIds || [], without its default (mutant).
SourceIdsOrFirst(ids) == IF ids = NoSourceIds THEN <<"source-1">> ELSE ids

\* character.knowledgeSourceIds || []
SourceIdsOr(ids) == IF ids = NoSourceIds THEN <<>> ELSE ids

NullResult       == [kind |-> "null"]
ContextString(v) == [kind |-> "string", value |-> v]

\* The store's operations.  saveVectorChunks adds every chunk to the chunks of
\* its source; getVectorChunksBySource returns the chunks of one source;
\* deleteVectorChunksBySource removes all of them.
saveVectorChunks(st, newChunks) ==
    [s \in SourceIds |-> st[s] \o SelectSeq(newChunks, LAMBDA c : c.sourceId = s)]

getVectorChunksBySource(st, sourceId) == st[sourceId]

\* A delete that leaves the first chunk of the source behind (mutant).
deleteAllButFirst(st, sourceId) ==
    [st EXCEPT ![sourceId] = SubSeq(st[sourceId], 1, Min(1, Len(st[sourceId])))]

deleteVectorChunksBySource(st, sourceId) == [st EXCEPT ![sourceId] = <<>>]

\* A promise rejected with error.
Throws(error) == [kind |-> "throw", error |-> error]

\* A catch block that swallows the error (mutant).
CatchSwallow(error) == NullResult

\* catch (error) { logger.error(...); throw error; }
CatchRethrow(error) == Throws(error)

\* if (!character.embeddingConfig) { logger.warn(...); return null; }
FindNoConfig ==
    /\ fPc = "start"
    /\ ~fConfig
    /\ fPc' = "done"
    /\ fEnd' = NullResult
    /\ fDeleted' = {s \in SourceIds : dPc[s] = "deleted"}
    /\ UNCHANGED <<fConfig, fSources, fTopK, fQuery, fIdx, allChunks, fEmbedCalls, fReads, fRaised>>
    /\ UNCHANGED <<retryVars, gateVars, chunkVars, storeVars, jobVars, cosVars, genVars>>

\* if (sourceIds.length === 0) return null;
FindNoSources ==
    /\ fPc = "start"
    /\ fConfig
    /\ SourceIdsOr(fSources) = <<>>
    /\ fPc' = "done"
    /\ fEnd' = NullResult
    /\ fDeleted' = {s \in SourceIds : dPc[s] = "deleted"}
    /\ UNCHANGED <<fConfig, fSources, fTopK, fQuery, fIdx, allChunks, fEmbedCalls, fReads, fRaised>>
    /\ UNCHANGED <<retryVars, gateVars, chunkVars, storeVars, jobVars, cosVars, genVars>>

\* embeddingService.generateEmbedding(query, character.embeddingConfig) is called.
FindEmbedRequest ==
    /\ fPc = "start"
    /\ fConfig
    /\ SourceIdsOr(fSources) # <<>>
    /\ fPc' = "embedding"
    /\ fEmbedCalls' = fEmbedCalls + 1
    /\ fDeleted' = {s \in SourceIds : dPc[s] = "deleted"}
    /\ UNCHANGED <<fConfig, fSources, fTopK, fQuery, fIdx, allChunks, fReads, fRaised, fEnd>>
    /\ UNCHANGED <<retryVars, gateVars, chunkVars, storeVars, jobVars, cosVars, genVars>>

\* The query embedding arrives; the for-of loop over sourceIds begins.
FindEmbedReturns ==
    /\ fPc = "embedding"
    /\ \E v \in QueryVectors : fQuery' = v
    /\ fPc' = "loading"
    /\ fIdx' = 1
    /\ UNCHANGED <<fConfig, fSources, fTopK, allChunks, fEmbedCalls, fReads, fDeleted, fRaised, fEnd>>
    /\ UNCHANGED <<retryVars, gateVars, chunkVars, storeVars, jobVars, cosVars, genVars>>

\* generateEmbedding rejects: the catch block.
FindEmbedFails ==
    /\ fPc = "embedding"
    /\ \E e \in EmbeddingErrors :
          /\ fRaised' = e
          /\ fEnd' = CatchRethrow(e)
    /\ fPc' = "done"
    /\ UNCHANGED <<fConfig, fSources, fTopK, fQuery, fIdx, allChunks, fEmbedCalls, fReads, fDeleted>>
    /\ UNCHANGED <<retryVars, gateVars, chunkVars, storeVars, jobVars, cosVars, genVars>>

\* chunks = await db.getVectorChunksBySource(sourceId); allChunks = allChunks.concat(chunks)
FindLoadReturns ==
    /\ fPc = "loading"
    /\ fIdx <= Len(SourceIdsOr(fSources))
    /\ LET sourceId == SourceIdsOr(fSources)[fIdx]
       IN  /\ allChunks' = allChunks \o getVectorChunksBySource(store, sourceId)
           /\ fReads' = Append(fReads, sourceId)
    /\ fIdx' = fIdx + 1
    /\ UNCHANGED <<fConfig, fSources, fTopK, fPc, fQuery, fEmbedCalls, fDeleted, fRaised, fEnd>>
    /\ UNCHANGED <<retryVars, gateVars, chunkVars, storeVars, jobVars, cosVars, genVars>>

\* db.getVectorChunksBySource rejects: the catch block.
FindLoadFails ==
    /\ fPc = "loading"
    /\ fIdx <= Len(SourceIdsOr(fSources))
    /\ fReads' = Append(fReads, SourceIdsOr(fSources)[fIdx])
    /\ \E e \in StoreErrors :
          /\ fRaised' = e
          /\ fEnd' = CatchRethrow(e)
    /\ fPc' = "done"
    /\ UNCHANGED <<fConfig, fSources, fTopK, fQuery, fIdx, allChunks, fEmbedCalls, fDeleted>>
    /\ UNCHANGED <<retryVars, gateVars, chunkVars, storeVars, jobVars, cosVars, genVars>>

\* if (allChunks.length === 0) return null;
FindNoChunks ==
    /\ fPc = "loading"
    /\ fIdx > Len(SourceIdsOr(fSources))
    /\ allChunks = <<>>
    /\ fPc' = "done"
    /\ fEnd' = NullResult
    /\ UNCHANGED <<fConfig, fSources, fTopK, fQuery, fIdx, allChunks, fEmbedCalls, fReads, fDeleted, fRaised>>
    /\ UNCHANGED <<retryVars, gateVars, chunkVars, storeVars, jobVars, cosVars, genVars>>

\* Score, sort, slice(0, topK), join.
FindRank ==
    /\ fPc = "loading"
    /\ fIdx > Len(SourceIdsOr(fSources))
    /\ allChunks # <<>>
    /\ LET scoredChunks ==
               [n \in 1..Len(allChunks) |->
                   [content    |-> allChunks[n].content,
                    sourceId   |-> allChunks[n].sourceId,
                    similarity |-> calculateCosineSimilarity(fQuery, allChunks[n].embedding)]]
           topChunks == Slice(SortBySimilarity(scoredChunks), 0, fTopK)
       IN  fEnd' = ContextString(Join([n \in 1..Len(topChunks) |-> topChunks[n].content], Separator))
    /\ fPc' = "done"
    /\ UNCHANGED <<fConfig, fSources, fTopK, fQuery, fIdx, allChunks, fEmbedCalls, fReads, fDeleted, fRaised>>
    /\ UNCHANGED <<retryVars, gateVars, chunkVars, storeVars, jobVars, cosVars, genVars>>

FindNext ==
    \/ FindNoConfig
    \/ FindNoSources
    \/ FindEmbedRequest
    \/ FindEmbedReturns
    \/ FindEmbedFails
    \/ FindLoadReturns
    \/ FindLoadFails
    \/ FindNoChunks
    \/ FindRank

(***************************************************************************)
(* processAndIndexFile                                                     *)
(***************************************************************************)

NoSource == "-"

\* The lengths of the files that are indexed: they give 0, 1, 2 and 3 chunks.
FileLengths == {0, 1000, 1800, 2500}

\* The source ids that have been generated so far; crypto.randomUUID() never
\* repeats one.
IssuedIds ==
    {s \in SourceIds : s \in documents \/ dPc[s] # "idle" \/ store[s] # <<>> \/ pSource = s}

\* The decimal numeral a template literal inserts for a number below 10.
Decimal(n) == <<"0", "1", "2", "3", "4", "5", "6", "7", "8", "9">>[n + 1]

ReadingFile          == <<"Reading", "file:", "name">>
ChunkingText         == <<"Chunking", "text...">>
GeneratingFor(k, n)  == <<"Generating", "embedding", "for", "chunk", Decimal(k), "of", Decimal(n)>>
SavingVectors(n)     == <<"Saving", Decimal(n), "vectors", "to", "the", "database...">>

\* The error naming the loop variable i instead of i + 1 (mutant).
FailedToProcessZeroBased(k) ==
    [kind |-> "Error", message |-> <<"Failed", "to", "process", "chunk", Decimal(k - 1)>>, status |-> 0]

\* new Error(`Failed to process chunk ${i+1}. Check embedding API settings.`)
FailedToProcess(k) ==
    [kind |-> "Error", message |-> <<"Failed", "to", "process", "chunk", Decimal(k)>>, status |-> 0]

ReadErrors ==
    { [kind |-> "Error", message |-> <<"NotReadableError">>, status |-> 0] }

\* An entry of the job's history: an onProgress message, or a request to, an
\* answer of or a failure of a collaborator, for chunk k (0: not about a chunk).
Event(ev, k, msg) == [ev |-> ev, chunk |-> k, msg |-> msg]

\* chunkText as a function: the pushes of the while loop from cursor on.
RECURSIVE ChunksFrom(_, _, _, _)
ChunksFrom(t, cursor, size, lap) ==
    IF cursor < Len(t)
    THEN <<Slice(t, cursor, Min(cursor + size, Len(t)))>>
         \o ChunksFrom(t, NextCursor(cursor, size, lap, Len(t)), size, lap)
    ELSE <<>>

chunkText(t) == ChunksFrom(t, 0, DefaultChunkSize, DefaultOverlap)

\* The request issued ahead of its progress message (mutant).
IndexLoopRequestFirst(log, k, n) ==
    IF k <= n
    THEN log \o <<Event("embed", k, <<>>), Event("progress", k, GeneratingFor(k, n))>>
    ELSE log \o <<Event("save", 0, <<>>), Event("progress", 0, SavingVectors(n))>>

\* The head of the for loop at i = k - 1, and the statements after the loop:
\* the progress message and the request that follow.
IndexLoop(log, k, n) ==
    IF k <= n
    THEN log \o <<Event("progress", k, GeneratingFor(k, n)), Event("embed", k, <<>>)>>
    ELSE log \o <<Event("progress", 0, SavingVectors(n)), Event("save", 0, <<>>)>>

\* The call up to its first await: newSource, the first progress message and
\* the call of readFileAsText.
IndexStart ==
    /\ pPc = "start"
    /\ \E s \in SourceIds \ IssuedIds : pSource' = s
    /\ pLog' = <<Event("progress", 0, ReadingFile), Event("read", 0, <<>>)>>
    /\ pPc' = "reading"
    /\ UNCHANGED <<pFile, textChunks, pIdx, vectorChunks, pEnd>>
    /\ UNCHANGED <<retryVars, gateVars, chunkVars, storeVars, findVars, cosVars, genVars>>

\* readFileAsText rejects: the job rejects with the reader's error.
IndexReadFails ==
    /\ pPc = "reading"
    /\ \E e \in ReadErrors : pEnd' = Throws(e)
    /\ pLog' = Append(pLog, Event("failure", 0, <<>>))
    /\ pPc' = "thrown"
    /\ UNCHANGED <<pFile, pSource, textChunks, pIdx, vectorChunks>>
    /\ UNCHANGED <<retryVars, gateVars, chunkVars, storeVars, findVars, cosVars, genVars>>

\* The content arrives: chunkText, then the loop up to the first request.
IndexReadReturns ==
    /\ pPc = "reading"
    /\ textChunks' = chunkText(pFile)
    /\ pIdx' = 0
    /\ pLog' = IndexLoop(pLog \o <<Event("answer", 0, <<>>), Event("progress", 0, ChunkingText)>>,
                         1, Len(textChunks'))
    /\ pPc' = IF Len(textChunks') > 0 THEN "embedding" ELSE "saving"
    /\ UNCHANGED <<pFile, pSource, vectorChunks, pEnd>>
    /\ UNCHANGED <<retryVars, gateVars, chunkVars, storeVars, findVars, cosVars, genVars>>

\* The embedding of chunk i + 1 arrives: push, i++, and the loop up to the
\* next request.
IndexEmbedReturns ==
    /\ pPc = "embedding"
    /\ \E v \in ChunkVectors :
          vectorChunks' = Append(vectorChunks, VectorChunk(pSource, pIdx + 1, textChunks[pIdx + 1], v))
    /\ pIdx' = pIdx + 1
    /\ pLog' = IndexLoop(Append(pLog, Event("answer", pIdx + 1, <<>>)), pIdx + 2, Len(textChunks))
    /\ pPc' = IF pIdx + 1 < Len(textChunks) THEN "embedding" ELSE "saving"
    /\ UNCHANGED <<pFile, pSource, textChunks, pEnd>>
    /\ UNCHANGED <<retryVars, gateVars, chunkVars, storeVars, findVars, cosVars, genVars>>

\* generateEmbedding rejects for chunk i + 1: the catch block throws.
IndexEmbedFails ==
    /\ pPc = "embedding"
    /\ pEnd' = Throws(FailedToProcess(pIdx + 1))
    /\ pLog' = Append(pLog, Event("failure", pIdx + 1, <<>>))
    /\ pPc' = "thrown"
    /\ UNCHANGED <<pFile, pSource, textChunks, pIdx, vectorChunks>>
    /\ UNCHANGED <<retryVars, gateVars, chunkVars, storeVars, findVars, cosVars, genVars>>

\* db.saveVectorChunks resolves: the chunks are in the store, newSource is
\* returned and the library lists it.
IndexSaveReturns ==
    /\ pPc = "saving"
    /\ store' = saveVectorChunks(store, vectorChunks)
    /\ documents' = documents \cup {pSource}
    /\ pLog' = Append(pLog, Event("answer", 0, <<>>))
    /\ pEnd' = Returned(pSource)
    /\ pPc' = "returned"
    /\ UNCHANGED <<pFile, pSource, textChunks, pIdx, vectorChunks, dPc>>
    /\ UNCHANGED <<retryVars, gateVars, chunkVars, findVars, cosVars, genVars>>

\* db.saveVectorChunks rejects: nothing was stored and the job rejects.
IndexSaveFails ==
    /\ pPc = "saving"
    /\ \E e \in StoreErrors : pEnd' = Throws(e)
    /\ pLog' = Append(pLog, Event("failure", 0, <<>>))
    /\ pPc' = "thrown"
    /\ UNCHANGED <<pFile, pSource, textChunks, pIdx, vectorChunks>>
    /\ UNCHANGED <<retryVars, gateVars, chunkVars, storeVars, findVars, cosVars, genVars>>

IndexNext ==
    \/ IndexStart
    \/ IndexReadFails
    \/ IndexReadReturns
    \/ IndexEmbedReturns
    \/ IndexEmbedFails
    \/ IndexSaveReturns
    \/ IndexSaveFails

(***************************************************************************)
(* deleteSource, called by the document library for a listed source       *)
(***************************************************************************)

\* handleDelete is confirmed for a listed document: deleteSource(s) is called.
DeleteRequest(s) ==
    /\ s \in documents
    /\ dPc[s] \in {"idle", "failed"}
    /\ dPc' = [dPc EXCEPT ![s] = "deleting"]
    /\ UNCHANGED <<store, documents>>
    /\ UNCHANGED <<retryVars, gateVars, chunkVars, findVars, jobVars, cosVars, genVars>>

\* db.deleteVectorChunksBySource resolves: deleteSource has completed and the
\* library drops the document.
DeleteCompletes(s) ==
    /\ dPc[s] = "deleting"
    /\ store' = deleteVectorChunksBySource(store, s)
    /\ dPc' = [dPc EXCEPT ![s] = "deleted"]
    /\ documents' = documents \ {s}
    /\ UNCHANGED <<retryVars, gateVars, chunkVars, findVars, jobVars, cosVars, genVars>>

\* db.deleteVectorChunksBySource rejects: deleteSource rejects, the document
\* stays listed.
DeleteFails(s) ==
    /\ dPc[s] = "deleting"
    /\ dPc' = [dPc EXCEPT ![s] = "failed"]
    /\ UNCHANGED <<store, documents>>
    /\ UNCHANGED <<retryVars, gateVars, chunkVars, findVars, jobVars, cosVars, genVars>>

LibraryNext ==
    \/ FindNext
    \/ IndexNext
    \/ \E s \in SourceIds : DeleteRequest(s)
    \/ \E s \in SourceIds : DeleteCompletes(s)
    \/ \E s \in SourceIds : DeleteFails(s)

(***************************************************************************)
(* Properties of findRelevantContext (checked under SpecRetrieve)          *)
(***************************************************************************)

DeclaresNoSources == fSources = NoSourceIds \/ fSources = <<>>

\* C12: whenever the character's knowledgeSourceIds is empty or absent,
\* findRelevantContext never calls the embedding provider, never reads the
\* vector store, and its result is null.
C12_NoSourcesNoEmbeddingCall ==
    DeclaresNoSources
    => /\ fEmbedCalls = 0
       /\ fReads = <<>>
       /\ fPc \in {"start", "done"}
       /\ fPc = "done" => fEnd = NullResult

\* C12 (witness): the call has returned null for a character with an
\* embedding configuration and no knowledgeSourceIds, on a non-empty store.
C12_ReturnedNullWithoutSources ==
    /\ fPc = "done"
    /\ fConfig
    /\ fSources = NoSourceIds
    /\ fEnd = NullResult
    /\ \E s \in SourceIds : store[s] # <<>>

\* The chunks stored across the listed source ids, in load order: source ids
\* in listed order, then store order.
RECURSIVE StoredAcross(_, _)
StoredAcross(st, ids) ==
    IF ids = <<>> THEN <<>>
    ELSE StoredAcross(st, SubSeq(ids, 1, Len(ids) - 1)) \o st[ids[Len(ids)]]

SimEqual(x, y) == x.num * y.den = y.num * x.den

\* The call went through to the ranking: configuration and source ids are
\* present and neither the provider nor the store failed.
RankedCall ==
    /\ fPc = "done"
    /\ fConfig
    /\ ~DeclaresNoSources
    /\ fRaised = NoEnd

\* C13: when n >= 1 chunks are stored across the character's
\* knowledgeSourceIds, the call returns the contents of exactly min(topK, n)
\* chunks joined by the separator, in non-increasing order of cosine
\* similarity to the query embedding with ties in load order; no chunk left
\* out has a strictly higher similarity than a returned one.
C13_TopKBySimilarity ==
    LET loaded == StoredAcross(store, fSources)
        n      == Len(loaded)
        m      == Min(fTopK, n)
        sim(k) == calculateCosineSimilarity(fQuery, loaded[k].embedding)
    IN  (RankedCall /\ n >= 1)
        => /\ fEnd.kind = "string"
           /\ \E pick \in [1..m -> 1..n] :
                 /\ \A a, b \in 1..m : a < b =>
                       \/ SimLess(sim(pick[b]), sim(pick[a]))
                       \/ SimEqual(sim(pick[a]), sim(pick[b])) /\ pick[a] < pick[b]
                 /\ \A k \in 1..n :
                       (\A a \in 1..m : pick[a] # k)
                       => \A a \in 1..m : ~SimLess(sim(pick[a]), sim(k))
                 /\ fEnd.value = Join([a \in 1..m |-> loaded[pick[a]].content], Separator)

\* C13 (witness): three chunks from two sources were ranked for topK = 2: the
\* chunk loaded last has the strictly highest similarity and the two loaded
\* before it tie, so the result is the third chunk followed by the first.
C13_TieBehindLaterChunk ==
    LET loaded == StoredAcross(store, fSources)
        sim(k) == calculateCosineSimilarity(fQuery, loaded[k].embedding)
    IN  /\ RankedCall
        /\ Len(fSources) = 2
        /\ Len(loaded) = 3
        /\ fTopK = 2
        /\ SimEqual(sim(1), sim(2))
        /\ loaded[1].embedding # loaded[2].embedding
        /\ SimLess(sim(1), sim(3))
        /\ fEnd = ContextString(loaded[3].content \o Separator \o loaded[1].content)

\* C14: a failure of the query embedding call or of a load makes the call
\* fail with that same error; it never ends with null or with a string built
\* from the sources already loaded.
C14_FailureRethrown ==
    fRaised # NoEnd
    => /\ fPc = "done"
       /\ fEnd = [kind |-> "throw", error |-> fRaised]

\* C14 (witness): the load of the second source failed after the first
\* source's chunks had been loaded, and the call threw the store's error.
C14_SecondLoadFailed ==
    /\ fRaised \in StoreErrors
    /\ Len(fReads) = 2
    /\ allChunks # <<>>
    /\ fEnd.kind = "throw"

\* C15: when the character has knowledge sources and no embedding
\* configuration, the call ends with a thrown configuration error and not
\* with a normal result.
C15_MissingConfigReported ==
    (fPc = "done" /\ ~fConfig /\ ~DeclaresNoSources)
    => fEnd.kind = "throw"

(***************************************************************************)
(* Properties of processAndIndexFile (checked under SpecIndex)             *)
(***************************************************************************)

IsEmbedRequest(e) == e.ev = "embed"
IsProgress(e)     == e.ev = "progress"
IsRequest(e)      == e.ev \in {"read", "embed", "save"}
IsAnswered(e)     == e.ev \in {"answer", "failure"}

\* generateEmbedding failed for chunk k.
EmbeddingFailedAt(k) ==
    \E q \in 1..Len(pLog) : pLog[q].ev = "failure" /\ pLog[q].chunk = k

\* C16: if generateEmbedding fails for chunk k, no embedding request is
\* issued for a later chunk, saveVectorChunks is never called and nothing is
\* stored, no source is returned or listed, and the job fails with an error
\* whose message names k.
C16_EmbeddingFailureAbortsJob ==
    \A k \in 1..Len(textChunks) :
        EmbeddingFailedAt(k)
        => /\ \A q \in 1..Len(pLog) : IsEmbedRequest(pLog[q]) => pLog[q].chunk <= k
           /\ \A q \in 1..Len(pLog) : pLog[q].ev # "save"
           /\ \A s \in SourceIds : store[s] = <<>>
           /\ documents = {}
           /\ pPc = "thrown"
           /\ pEnd.kind = "throw"
           /\ pEnd.error.message = <<"Failed", "to", "process", "chunk", Decimal(k)>>

\* C16 (witness): the embedding of chunk 2 of 3 failed after chunk 1 had been
\* embedded.
C16_SecondOfThreeFailed ==
    /\ Len(textChunks) = 3
    /\ EmbeddingFailedAt(2)
    /\ Len(vectorChunks) = 1
    /\ pPc = "thrown"

\* C17: embedding requests are issued in document order, each one after the
\* answer to the one before it and after the progress message of its chunk;
\* at most one request of the job is outstanding; the progress messages are
\* read, chunk, one per chunk in order, then persist; the chunks passed to
\* saveVectorChunks are the text chunks in document order, each with the new
\* source's id.
C17_SequentialInDocumentOrder ==
    LET n         == Len(textChunks)
        requests  == SelectSeq(pLog, IsEmbedRequest)
        progress  == SelectSeq(pLog, IsProgress)
    IN  /\ \A k \in 1..Len(requests) : requests[k].chunk = k
        /\ \A q \in 1..Len(pLog) :
              IsEmbedRequest(pLog[q])
              => /\ q > 1
                 /\ pLog[q - 1] = Event("progress", pLog[q].chunk, GeneratingFor(pLog[q].chunk, n))
                 /\ pLog[q].chunk > 1
                    => \E r \in 1..(q - 1) : pLog[r] = Event("answer", pLog[q].chunk - 1, <<>>)
        /\ \A q \in 0..Len(pLog) :
              Len(SelectSeq(SubSeq(pLog, 1, q), IsRequest))
                - Len(SelectSeq(SubSeq(pLog, 1, q), IsAnswered)) \in {0, 1}
        /\ \A k \in 1..Len(progress) :
              progress[k].msg =
                  IF k = 1 THEN ReadingFile
                  ELSE IF k = 2 THEN ChunkingText
                  ELSE IF k <= n + 2 THEN GeneratingFor(k - 2, n)
                  ELSE SavingVectors(n)
        /\ Len(progress) <= n + 3
        /\ (\E q \in 1..Len(pLog) : pLog[q].ev = "save")
           => /\ textChunks = chunkText(pFile)
              /\ Len(vectorChunks) = n
              /\ \A k \in 1..n :
                    /\ vectorChunks[k].content = textChunks[k]
                    /\ vectorChunks[k].sourceId = pSource
        /\ pPc = "returned"
           => /\ store[pSource] = vectorChunks
              /\ pEnd = Returned(pSource)

\* C17 (witness): a job of three chunks has returned its source.
C17_ThreeChunksIndexed ==
    /\ pPc = "returned"
    /\ Len(textChunks) = 3
    /\ Len(store[pSource]) = 3
    /\ Len(SelectSeq(pLog, IsProgress)) = 6

(***************************************************************************)
(* Properties of deleteSource (checked under SpecLibrary)                  *)
(***************************************************************************)

\* C18: once deleteSource(s) has completed, the store holds no chunk of s;
\* a findRelevantContext call started after that loads no chunk of s, and
\* the string it returns is the join of contents of chunks it loaded, so it
\* holds no content of a chunk that belonged to s, also for a character that
\* still lists s.
C18_DeletedSourceNotRetrievable ==
    /\ \A s \in SourceIds :
          dPc[s] = "deleted" => getVectorChunksBySource(store, s) = <<>>
    /\ \A n \in 1..Len(allChunks) : allChunks[n].sourceId \notin fDeleted
    /\ (fPc = "done" /\ fEnd.kind = "string")
       => \E m \in 0..Len(allChunks) : \E pick \in [1..m -> 1..Len(allChunks)] :
             fEnd.value = Join([a \in 1..m |-> allChunks[pick[a]].content], Separator)

\* C18 (witness): a call for a character listing both sources started after
\* deleteSource("source-1") had completed, read the store for both, and
\* returned the content of the chunk indexed for "source-2".
C18_RetrievedAfterDelete ==
    /\ fDeleted = {"source-1"}
    /\ fReads = <<"source-1", "source-2">>
    /\ fPc = "done"
    /\ fEnd.kind = "string"
    /\ Len(allChunks) = 1
    /\ fEnd.value = vectorChunks[1].content

(***************************************************************************)
(* calculateCosineSimilarity on arbitrary vectors                          *)
(***************************************************************************)

\* Bounds: the vectors have 0..MaxDim integer components in
\* -MaxComponent..MaxComponent.
MaxDim       == 2
MaxComponent == 4

IsSquare(n) == \E r \in 0..n : r * r = n

\* The vectors of the model: those whose squared norm is a perfect square, so
\* that Math.sqrt is exact.
Vectors ==
    UNION { {v \in [1..n -> (-MaxComponent)..MaxComponent] : IsSquare(SumProducts(v, v, n))} :
            n \in 0..MaxDim }

\* One call for (a, b) and one for (b, a).
CosineCall ==
    /\ cosPc = "ready"
    /\ cosSim' = calculateCosineSimilarity(cosA, cosB)
    /\ cosSwap' = calculateCosineSimilarity(cosB, cosA)
    /\ cosPc' = "done"
    /\ UNCHANGED <<cosA, cosB>>
    /\ UNCHANGED <<retryVars, gateVars, chunkVars, storeVars, findVars, jobVars, genVars>>

CosineNext == CosineCall

(***************************************************************************)
(* Properties of calculateCosineSimilarity (checked under SpecCosine)      *)
(***************************************************************************)

ZeroNorm(v) == \A n \in 1..Len(v) : v[n] = 0

\* Either vector is empty or has zero norm, or the lengths differ.
Degenerate(a, b) ==
    \/ Len(a) = 0
    \/ Len(b) = 0
    \/ Len(a) # Len(b)
    \/ ZeroNorm(a)
    \/ ZeroNorm(b)

\* C28: the function always returns a number (a quotient with a positive
\* denominator); it returns exactly 0 when either vector is empty or has zero
\* norm or when the lengths differ; and the value for (a, b) is the value
\* for (b, a).
C28_ZeroOnDegenerateAndSymmetric ==
    cosPc = "done"
    => /\ cosSim.den > 0
       /\ Degenerate(cosA, cosB) => cosSim = ZeroSimilarity
       /\ cosSim = cosSwap

\* C28 (witness): a zero vector was compared with a non-zero vector of the
\* same length, and the result was 0.
C28_ZeroVectorCompared ==
    /\ cosPc = "done"
    /\ Len(cosA) = MaxDim
    /\ Len(cosB) = MaxDim
    /\ ZeroNorm(cosA)
    /\ ~ZeroNorm(cosB)
    /\ cosSim = ZeroSimilarity

(***************************************************************************)
(* streamChatResponse, from the statement after the rate gate on           *)
(***************************************************************************)

\* Bound: the number of events of the provider's stream that are followed.
MaxReads == 2

\* character.apiConfig is absent.
NoConfig == "-"

\* The values of config.service: the two chat services, the literal default,
\* an absent value and a value that is not a chat service.
Services == {"openai", "gemini", "default", NoConfig, "pollinations"}

Message(role) == [role |-> role, content |-> <<"text">>]

Histories ==
    { <<>>,
      <<Message("system")>>,
      <<Message("user")>>,
      <<Message("narrator"), Message("model")>> }

\* history.filter(msg => msg.role === 'user' || 'model' || 'narrator')
RelevantMessages(history) ==
    SelectSeq(history, LAMBDA msg : msg.role \in {"user", "model", "narrator"})

\* The text deltas of the provider.
Deltas == {<<"Hello">>, <<"world">>}

\* An argument of onChunk: its text, and whether the call passed it to
\* report a failure.
TextChunk(t)    == [text |-> t, failure |-> FALSE]
FailureChunk(t) == [text |-> t, failure |-> TRUE]

MissingEndpointText ==
    <<"Error:", "OpenAI-compatible", "API", "endpoint", "is", "not", "configured",
      "for", "this", "character.">>

MissingEndpoint ==
    [kind |-> "Config", message |-> MissingEndpointText, status |-> 0]

\* getAiClient's error.
NoDefaultKey ==
    [kind |-> "Error", message |-> <<"Default", "Gemini", "API", "key", "not", "configured.">>, status |-> 0]

StatusString(status) ==
    CASE status = 200 -> "200"
      [] status = 429 -> "429"
      [] status = 500 -> "500"
      [] status = 503 -> "503"

\* new Error(`OpenAI API Error: ${response.status} - ${errorText}`)
OpenAIApiError(status) ==
    [kind |-> "Error", message |-> <<"OpenAI", "API", "Error:", StatusString(status), "-", "body">>, status |-> 0]

NullBody ==
    [kind |-> "Error", message |-> <<"Response", "body", "is", "null">>, status |-> 0]

\* What reading the body or iterating the SDK's stream can raise.
StreamErrors ==
    { [kind |-> "Error", message |-> <<"network", "error">>, status |-> 0],
      [kind |-> "Other", message |-> Undefined, status |-> 0] }

\* A withRetry that gives up without calling apiCall (mutant).
RetryRunsNoCall(mode, attempt, max) ==
    {[requests |-> 0, end |-> Throws(ExhaustedError)]}

\* withRetry as a function: the ways one execution from `attempt` on can go,
\* each with the number of calls of apiCall it makes and its end.
RECURSIVE RetryRuns(_, _, _)
RetryRuns(mode, attempt, max) ==
    IF ~(attempt < max)
    THEN {[requests |-> 0, end |-> Throws(ExhaustedError)]}
    ELSE UNION { IF o.ok
                 THEN {[requests |-> 1, end |-> Returned(o.value)]}
                 ELSE IF IsRateLimitError(o.error) /\ ~(attempt + 1 >= max)
                      THEN {[requests |-> r.requests + 1, end |-> r.end] :
                               r \in RetryRuns(mode, attempt + 1, max)}
                      ELSE {[requests |-> 1, end |-> Throws(o.error)]} :
                 o \in OpOutcomes(mode) }

\* error instanceof Error ? error.message : String(error)
OpenAIErrorText(error) ==
    IF error.kind = "Error" THEN error.message
    ELSE IF error.kind = "Response" THEN <<"[object", "Response]">>
    ELSE <<"[object", "Object]">>

\* error instanceof Error ? error.message : "An unknown error occurred."
GeminiErrorText(error) ==
    IF error.kind = "Error" THEN error.message
    ELSE <<"An", "unknown", "error", "occurred.">>

\* A catch block that lets the error escape (mutant).
CatchEscapes(out, error) == [out |-> out, settled |-> "rejected"]

\* catch: onChunk(`[Error: ${...}]`)
OpenAICatch(out, error) ==
    [out     |-> Append(out, FailureChunk(<<"[Error:">> \o OpenAIErrorText(error) \o <<"]">>)),
     settled |-> "resolved"]

\* catch: onChunk(`Sorry, an error occurred with the Gemini API: ${errorMessage}`)
GeminiCatch(out, error) ==
    [out     |-> Append(out, FailureChunk(<<"Sorry,", "an", "error", "occurred", "with", "the",
                                            "Gemini", "API:">> \o GeminiErrorText(error))),
     settled |-> "resolved"]

\* config.service === 'openai' without config.apiEndpoint.
ChatMissingEndpoint ==
    /\ sPc = "idle"
    /\ sService = "openai"
    /\ ~sEndpoint
    /\ sOut' = Append(sOut, FailureChunk(MissingEndpointText))
    /\ sFailure' = MissingEndpoint
    /\ sSettled' = "resolved"
    /\ sPc' = "settled"
    /\ UNCHANGED <<sService, sEndpoint, sApiKey, sDefaultAi, sHistory, sRequests, sReads, sAdapters>>
    /\ UNCHANGED <<retryVars, gateVars, chunkVars, ragVars, histVars, eventVars, imageVars, callVars, ttsVars, libVars>>

\* streamOpenAIChatResponse up to its first await: fetchWithRetry makes its
\* first request.
OpenAIDispatch ==
    /\ sPc = "idle"
    /\ sService = "openai"
    /\ sEndpoint
    /\ sRequests' = 1
    /\ sPc' = "fetch"
    /\ sAdapters' = Append(sAdapters, "openai")
    /\ UNCHANGED <<sService, sEndpoint, sApiKey, sDefaultAi, sHistory, sOut, sSettled, sReads, sFailure>>
    /\ UNCHANGED <<retryVars, gateVars, chunkVars, ragVars, histVars, eventVars, imageVars, callVars, ttsVars, libVars>>

\* fetchWithRetry rejects: the catch block.
OpenAIFetchFails ==
    /\ sPc = "fetch"
    /\ \E run \in RetryRuns("fetch", 0, DefaultMaxRetries) :
          /\ run.end.kind = "throw"
          /\ sRequests' = run.requests
          /\ sFailure' = run.end.error
          /\ sOut' = OpenAICatch(sOut, run.end.error).out
          /\ sSettled' = OpenAICatch(sOut, run.end.error).settled
    /\ sPc' = "settled"
    /\ UNCHANGED <<sService, sEndpoint, sApiKey, sDefaultAi, sHistory, sReads, sAdapters>>
    /\ UNCHANGED <<retryVars, gateVars, chunkVars, ragVars, histVars, eventVars, imageVars, callVars, ttsVars, libVars>>

\* fetchWithRetry resolves with a response that is not ok, or whose body is
\* null: the error thrown inside the try block, then the catch block.
OpenAIResponseRejected ==
    /\ sPc = "fetch"
    /\ \E run \in RetryRuns("fetch", 0, DefaultMaxRetries) :
          /\ run.end.kind = "return"
          /\ sRequests' = run.requests
          /\ \E error \in (IF run.end.value.status = 200
                           THEN {NullBody}
                           ELSE {OpenAIApiError(run.end.value.status)}) :
                /\ sFailure' = error
                /\ sOut' = OpenAICatch(sOut, error).out
                /\ sSettled' = OpenAICatch(sOut, error).settled
    /\ sPc' = "settled"
    /\ UNCHANGED <<sService, sEndpoint, sApiKey, sDefaultAi, sHistory, sReads, sAdapters>>
    /\ UNCHANGED <<retryVars, gateVars, chunkVars, ragVars, histVars, eventVars, imageVars, callVars, ttsVars, libVars>>

\* fetchWithRetry resolves with an ok response that has a body: the read loop
\* begins.
OpenAIResponseOk ==
    /\ sPc = "fetch"
    /\ \E run \in RetryRuns("fetch", 0, DefaultMaxRetries) :
          /\ run.end.kind = "return"
          /\ run.end.value.status = 200
          /\ sRequests' = run.requests
    /\ sPc' = "read"
    /\ UNCHANGED <<sService, sEndpoint, sApiKey, sDefaultAi, sHistory, sOut, sSettled, sReads, sFailure, sAdapters>>
    /\ UNCHANGED <<retryVars, gateVars, chunkVars, ragVars, histVars, eventVars, imageVars, callVars, ttsVars, libVars>>

\* A read brings one complete `data:` event with a non-empty text delta.
OpenAIReadDelta ==
    /\ sPc = "read"
    /\ sReads < MaxReads
    /\ \E delta \in Deltas : sOut' = Append(sOut, TextChunk(delta))
    /\ sReads' = sReads + 1
    /\ UNCHANGED <<sService, sEndpoint, sApiKey, sDefaultAi, sHistory, sPc, sSettled, sRequests, sFailure, sAdapters>>
    /\ UNCHANGED <<retryVars, gateVars, chunkVars, ragVars, histVars, eventVars, imageVars, callVars, ttsVars, libVars>>

\* A read brings a line that is no `data:` event, an event without content
\* or one whose JSON does not parse: nothing is emitted.
OpenAIReadSkipped ==
    /\ sPc = "read"
    /\ sReads < MaxReads
    /\ sReads' = sReads + 1
    /\ UNCHANGED <<sService, sEndpoint, sApiKey, sDefaultAi, sHistory, sPc, sOut, sSettled, sRequests, sFailure, sAdapters>>
    /\ UNCHANGED <<retryVars, gateVars, chunkVars, ragVars, histVars, eventVars, imageVars, callVars, ttsVars, libVars>>

\* A read brings `data: [DONE]` (return), or the stream is done (break).
OpenAIReadEnds ==
    /\ sPc = "read"
    /\ sSettled' = "resolved"
    /\ sPc' = "settled"
    /\ UNCHANGED <<sService, sEndpoint, sApiKey, sDefaultAi, sHistory, sOut, sRequests, sReads, sFailure, sAdapters>>
    /\ UNCHANGED <<retryVars, gateVars, chunkVars, ragVars, histVars, eventVars, imageVars, callVars, ttsVars, libVars>>

\* reader.read() rejects: the catch block.
OpenAIReadFails ==
    /\ sPc = "read"
    /\ \E error \in StreamErrors :
          /\ sFailure' = error
          /\ sOut' = OpenAICatch(sOut, error).out
          /\ sSettled' = OpenAICatch(sOut, error).settled
    /\ sPc' = "settled"
    /\ UNCHANGED <<sService, sEndpoint, sApiKey, sDefaultAi, sHistory, sRequests, sReads, sAdapters>>
    /\ UNCHANGED <<retryVars, gateVars, chunkVars, ragVars, histVars, eventVars, imageVars, callVars, ttsVars, libVars>>

\* The custom key is used only for service 'gemini'; without it defaultAi.
HasAiClient == (sService = "gemini" /\ sApiKey) \/ sDefaultAi

\* streamGeminiChatResponse: getAiClient throws, the catch block.
GeminiNoClient ==
    /\ sPc = "idle"
    /\ sService # "openai"
    /\ ~HasAiClient
    /\ sFailure' = NoDefaultKey
    /\ sOut' = GeminiCatch(sOut, NoDefaultKey).out
    /\ sSettled' = GeminiCatch(sOut, NoDefaultKey).settled
    /\ sPc' = "settled"
    /\ sAdapters' = Append(sAdapters, "gemini")
    /\ UNCHANGED <<sService, sEndpoint, sApiKey, sDefaultAi, sHistory, sRequests, sReads>>
    /\ UNCHANGED <<retryVars, gateVars, chunkVars, ragVars, histVars, eventVars, imageVars, callVars, ttsVars, libVars>>

\* if (contents.length === 0) { logger.warn(...); return; }
GeminiEmptyHistory ==
    /\ sPc = "idle"
    /\ sService # "openai"
    /\ HasAiClient
    /\ Len(RelevantMessages(sHistory)) = 0
    /\ sSettled' = "resolved"
    /\ sPc' = "settled"
    /\ sAdapters' = Append(sAdapters, "gemini")
    /\ UNCHANGED <<sService, sEndpoint, sApiKey, sDefaultAi, sHistory, sOut, sRequests, sReads, sFailure>>
    /\ UNCHANGED <<retryVars, gateVars, chunkVars, ragVars, histVars, eventVars, imageVars, callVars, ttsVars, libVars>>

\* withRetry makes its first call of generateContentStream.
GeminiDispatch ==
    /\ sPc = "idle"
    /\ sService # "openai"
    /\ HasAiClient
    /\ Len(RelevantMessages(sHistory)) # 0
    /\ sRequests' = 1
    /\ sPc' = "call"
    /\ sAdapters' = Append(sAdapters, "gemini")
    /\ UNCHANGED <<sService, sEndpoint, sApiKey, sDefaultAi, sHistory, sOut, sSettled, sReads, sFailure>>
    /\ UNCHANGED <<retryVars, gateVars, chunkVars, ragVars, histVars, eventVars, imageVars, callVars, ttsVars, libVars>>

\* withRetry rejects: the catch block.
GeminiCallFails ==
    /\ sPc = "call"
    /\ \E run \in RetryRuns("generic", 0, DefaultMaxRetries) :
          /\ run.end.kind = "throw"
          /\ sRequests' = run.requests
          /\ sFailure' = run.end.error
          /\ sOut' = GeminiCatch(sOut, run.end.error).out
          /\ sSettled' = GeminiCatch(sOut, run.end.error).settled
    /\ sPc' = "settled"
    /\ UNCHANGED <<sService, sEndpoint, sApiKey, sDefaultAi, sHistory, sReads, sAdapters>>
    /\ UNCHANGED <<retryVars, gateVars, chunkVars, ragVars, histVars, eventVars, imageVars, callVars, ttsVars, libVars>>

\* withRetry resolves with the response stream: the for await loop begins.
GeminiCallReturns ==
    /\ sPc = "call"
    /\ \E run \in RetryRuns("generic", 0, DefaultMaxRetries) :
          /\ run.end.kind = "return"
          /\ sRequests' = run.requests
    /\ sPc' = "stream"
    /\ UNCHANGED <<sService, sEndpoint, sApiKey, sDefaultAi, sHistory, sOut, sSettled, sReads, sFailure, sAdapters>>
    /\ UNCHANGED <<retryVars, gateVars, chunkVars, ragVars, histVars, eventVars, imageVars, callVars, ttsVars, libVars>>

\* The stream yields a chunk with text.
GeminiChunkText ==
    /\ sPc = "stream"
    /\ sReads < MaxReads
    /\ \E delta \in Deltas : sOut' = Append(sOut, TextChunk(delta))
    /\ sReads' = sReads + 1
    /\ UNCHANGED <<sService, sEndpoint, sApiKey, sDefaultAi, sHistory, sPc, sSettled, sRequests, sFailure, sAdapters>>
    /\ UNCHANGED <<retryVars, gateVars, chunkVars, ragVars, histVars, eventVars, imageVars, callVars, ttsVars, libVars>>

\* The stream yields a chunk without text: nothing is emitted.
GeminiChunkEmpty ==
    /\ sPc = "stream"
    /\ sReads < MaxReads
    /\ sReads' = sReads + 1
    /\ UNCHANGED <<sService, sEndpoint, sApiKey, sDefaultAi, sHistory, sPc, sOut, sSettled, sRequests, sFailure, sAdapters>>
    /\ UNCHANGED <<retryVars, gateVars, chunkVars, ragVars, histVars, eventVars, imageVars, callVars, ttsVars, libVars>>

\* The stream ends.
GeminiStreamEnds ==
    /\ sPc = "stream"
    /\ sSettled' = "resolved"
    /\ sPc' = "settled"
    /\ UNCHANGED <<sService, sEndpoint, sApiKey, sDefaultAi, sHistory, sOut, sRequests, sReads, sFailure, sAdapters>>
    /\ UNCHANGED <<retryVars, gateVars, chunkVars, ragVars, histVars, eventVars, imageVars, callVars, ttsVars, libVars>>

\* The iteration of the stream throws: the catch block.
GeminiStreamFails ==
    /\ sPc = "stream"
    /\ \E error \in StreamErrors :
          /\ sFailure' = error
          /\ sOut' = GeminiCatch(sOut, error).out
          /\ sSettled' = GeminiCatch(sOut, error).settled
    /\ sPc' = "settled"
    /\ UNCHANGED <<sService, sEndpoint, sApiKey, sDefaultAi, sHistory, sRequests, sReads, sAdapters>>
    /\ UNCHANGED <<retryVars, gateVars, chunkVars, ragVars, histVars, eventVars, imageVars, callVars, ttsVars, libVars>>

StreamNext ==
    \/ ChatMissingEndpoint
    \/ OpenAIDispatch
    \/ OpenAIFetchFails
    \/ OpenAIResponseRejected
    \/ OpenAIResponseOk
    \/ OpenAIReadDelta
    \/ OpenAIReadSkipped
    \/ OpenAIReadEnds
    \/ OpenAIReadFails
    \/ GeminiNoClient
    \/ GeminiEmptyHistory
    \/ GeminiDispatch
    \/ GeminiCallFails
    \/ GeminiCallReturns
    \/ GeminiChunkText
    \/ GeminiChunkEmpty
    \/ GeminiStreamEnds
    \/ GeminiStreamFails

(***************************************************************************)
(* Properties of streamChatResponse (checked under SpecStream)             *)
(***************************************************************************)

FailureChunks == {k \in 1..Len(sOut) : sOut[k].failure}

\* The texts by which the call reports failure f.
FailureTexts(f) ==
    { <<"[Error:">> \o OpenAIErrorText(f) \o <<"]">>,
      <<"Sorry,", "an", "error", "occurred", "with", "the", "Gemini", "API:">> \o GeminiErrorText(f),
      MissingEndpointText }

\* C19: the returned promise is never rejected; when a failure ends the call
\* (a missing endpoint or client before dispatch, a rejected or non-ok
\* request, also after retries, or an error in the middle of the stream) the
\* promise is resolved, exactly one chunk reporting that failure has been
\* passed to onChunk and it is the last one; onChunk arguments are only ever
\* appended, so the chunks delivered before the failure stay delivered, and
\* nothing is passed to onChunk once the promise is settled.
C19_FailureEndsWithOneChunk ==
    /\ [](sSettled # "rejected")
    /\ [](sFailure # NoEnd
           => /\ sSettled = "resolved"
              /\ FailureChunks = {Len(sOut)}
              /\ sOut[Len(sOut)].text \in FailureTexts(sFailure))
    /\ [](sFailure = NoEnd => FailureChunks = {})
    /\ [][/\ Len(sOut') >= Len(sOut)
          /\ SubSeq(sOut', 1, Len(sOut)) = sOut
          /\ sSettled # "pending" => sOut' = sOut]_vars

\* C19 (witness): the OpenAI-compatible stream failed after two deltas had
\* been delivered.
C19_FailedMidStream ==
    /\ sService = "openai"
    /\ sFailure \in StreamErrors
    /\ Len(sOut) = 3
    /\ ~sOut[1].failure
    /\ ~sOut[2].failure
    /\ sOut[3].failure
    /\ sSettled = "resolved"

\* C20: every chunk by which the call reports a failure begins with
\* "[Error:".
C20_FailuresBracketed ==
    \A k \in FailureChunks : sOut[k].text[1] = "[Error:"

\* The failures raised before any request: the missing endpoint and the
\* missing default client.
ConfigurationFailures == {MissingEndpoint, NoDefaultKey}

\* The stages of one call after the rate gate: idle, dispatched ("fetch",
\* "call"), streaming ("read", "stream") and settled (completed when
\* sFailure = NoEnd, errored otherwise).
StageSteps ==
    { <<"idle", "fetch">>, <<"idle", "call">>, <<"fetch", "read">>, <<"call", "stream">>,
      <<"idle", "settled">>, <<"fetch", "settled">>, <<"call", "settled">>,
      <<"read", "settled">>, <<"stream", "settled">> }

MaxHistory == 3

\* A string is a sequence of tokens; " " is a token of white space only.
\* A url is the sequence of its pieces between commas; <<>> is no url.
NoAttachment == [url |-> <<>>, status |-> "-", mimeType |-> "-"]

DataUrl == <<"data:;base64", "QUJD">>

Attachment(url, status, mimeType) == [url |-> url, status |-> status, mimeType |-> mimeType]

HistoryMessage(role, content, attachment) ==
    [role |-> role, content |-> content, attachment |-> attachment]

\* The messages a history is made of.
MessageShapes ==
    { HistoryMessage("user", <<"hello">>, NoAttachment),
      HistoryMessage("user", <<>>, NoAttachment),
      HistoryMessage("user", <<" ">>, Attachment(DataUrl, "done", "audio/mp3")),
      HistoryMessage("user", <<"look">>, Attachment(DataUrl, "done", "-")),
      HistoryMessage("user", <<"wait">>, Attachment(DataUrl, "pending", "audio/mp3")),
      HistoryMessage("user", <<"link">>, Attachment(<<"blob:1">>, "done", "audio/mp3")),
      HistoryMessage("model", <<"reply">>, NoAttachment),
      HistoryMessage("model", <<" ">>, NoAttachment),
      HistoryMessage("model", <<>>, Attachment(DataUrl, "done", "audio/mp3")),
      HistoryMessage("narrator", <<"scene">>, NoAttachment),
      HistoryMessage("narrator", <<>>, NoAttachment),
      HistoryMessage("system", <<"rules">>, NoAttachment) }

HistoriesUpTo(n) == UNION { [1..k -> MessageShapes] : k \in 0..n }

TextPart(t) == [kind |-> "text", mimeType |-> "-", data |-> t]

InlineDataPart(mimeType, data) == [kind |-> "inlineData", mimeType |-> mimeType, data |-> <<data>>]

\* String.trim() leaves the empty string.
TrimsToEmpty(t) == \A n \in 1..Len(t) : t[n] = " "

\* msg.role === 'narrator' ? `[NARRATOR]: ${msg.content}` : msg.content
TextContent(msg) ==
    IF msg.role = "narrator" THEN <<"[NARRATOR]:">> \o msg.content ELSE msg.content

\* The part for the attachment, if it is done and its url carries data after
\* the first comma.
AttachmentParts(msg) ==
    IF msg.attachment # NoAttachment /\ msg.attachment.url # <<>> /\ msg.attachment.status = "done"
    THEN IF Len(msg.attachment.url) >= 2 /\ msg.attachment.url[2] # ""
         THEN <<InlineDataPart(IF msg.attachment.mimeType # "-" THEN msg.attachment.mimeType ELSE "image/png",
                               msg.attachment.url[2])>>
         ELSE <<>>
    ELSE <<>>

\* relevantMessages.map(...)
MapMessage(msg) ==
    [role  |-> IF msg.role = "model" THEN "model" ELSE "user",
     parts |-> (IF TrimsToEmpty(TextContent(msg)) THEN <<>> ELSE <<TextPart(TextContent(msg))>>)
               \o AttachmentParts(msg)]

\* A merge step that never combines (mutant).
AppendTurnAlways(merged, curr) == Append(merged, curr)

\* One iteration of the merge loop.
AppendTurn(merged, curr) ==
    LET prev == merged[Len(merged)]
    IN  IF prev.role = curr.role
        THEN [merged EXCEPT ![Len(merged)] = [role |-> prev.role, parts |-> prev.parts \o curr.parts]]
        ELSE Append(merged, curr)

\* merged after the loop has handled mapped[1..k].
RECURSIVE MergeTurns(_, _)
MergeTurns(mapped, k) ==
    IF k = 1 THEN <<mapped[1]>>
    ELSE AppendTurn(MergeTurns(mapped, k - 1), mapped[k])

normalizeGeminiHistory(history) ==
    LET relevantMessages == RelevantMessages(history)
        mapped == [n \in 1..Len(relevantMessages) |-> MapMessage(relevantMessages[n])]
    IN  IF Len(relevantMessages) = 0 THEN <<>>
        ELSE MergeTurns(mapped, Len(mapped))

SystemInstruction == <<"You", "are", "a", "character.">>

\* streamOpenAIChatResponse: the messages of the request body.
OpenAIMessages(systemInstruction, history) ==
    <<[role |-> "system", content |-> systemInstruction]>>
    \o [n \in 1..Len(history) |->
           [role    |-> IF history[n].role = "model" THEN "assistant" ELSE history[n].role,
            content |-> history[n].content]]

\* streamGeminiChatResponse builds its contents.
GeminiContents ==
    /\ nPc = "ready"
    /\ nPath = "gemini"
    /\ nTurns' = normalizeGeminiHistory(nHistory)
    /\ nPc' = "done"
    /\ UNCHANGED <<nHistory, nPath>>
    /\ UNCHANGED <<retryVars, gateVars, chunkVars, ragVars, streamVars, eventVars, imageVars, callVars, ttsVars, libVars>>

\* streamOpenAIChatResponse builds its messages.
OpenAIBody ==
    /\ nPc = "ready"
    /\ nPath = "openai"
    /\ nTurns' = OpenAIMessages(SystemInstruction, nHistory)
    /\ nPc' = "done"
    /\ UNCHANGED <<nHistory, nPath>>
    /\ UNCHANGED <<retryVars, gateVars, chunkVars, ragVars, streamVars, eventVars, imageVars, callVars, ttsVars, libVars>>

HistoryNext ==
    \/ GeminiContents
    \/ OpenAIBody

(***************************************************************************)
(* Properties of the turn sequence (checked under SpecHistory)             *)
(***************************************************************************)

\* The role a message resolves to.
NormalizedRole(msg) == IF msg.role = "model" THEN "model" ELSE "user"

\* The run of same-role messages that relevant message n belongs to: one
\* more than the number of role changes up to n.
RunOf(relevant, n) ==
    1 + Cardinality({j \in 2..n : NormalizedRole(relevant[j]) # NormalizedRole(relevant[j - 1])})

\* The concatenation of the parts of messages from..to of the run `run`.
RECURSIVE PartsOfRun(_, _, _)
PartsOfRun(relevant, run, n) ==
    IF n = 0 THEN <<>>
    ELSE PartsOfRun(relevant, run, n - 1)
         \o (IF RunOf(relevant, n) = run THEN MapMessage(relevant[n]).parts ELSE <<>>)

\* C22: in the turn sequence built by normalizeGeminiHistory no two adjacent
\* turns have the same role; there is one turn per run of consecutive
\* relevant messages resolving to the same role, it has that role, and its
\* parts are the parts of the messages of the run concatenated in message
\* order.
C22_RunsMergedInOrder ==
    (nPc = "done" /\ nPath = "gemini")
    => LET relevant == RelevantMessages(nHistory)
       IN  /\ \A t \in 1..(Len(nTurns) - 1) : nTurns[t].role # nTurns[t + 1].role
           /\ Len(nTurns) = (IF Len(relevant) = 0 THEN 0 ELSE RunOf(relevant, Len(relevant)))
           /\ \A n \in 1..Len(relevant) :
                 nTurns[RunOf(relevant, n)].role = NormalizedRole(relevant[n])
           /\ \A t \in 1..Len(nTurns) :
                 nTurns[t].parts = PartsOfRun(relevant, t, Len(relevant))

\* C22 (witness): a user message, a narrator message and a user message with
\* an attachment collapsed into one user turn of four parts.
C22_ThreeMessagesOneTurn ==
    /\ nPc = "done"
    /\ nPath = "gemini"
    /\ Len(nHistory) = 3
    /\ nHistory[1].role = "user"
    /\ nHistory[2].role = "narrator"
    /\ nHistory[3].role = "user"
    /\ Len(nTurns) = 1
    /\ Len(nTurns[1].parts) = 4

\* C23: on both chat paths every narrator message is sent as a user-role
\* turn whose text starts with "[NARRATOR]:", and no turn is sent with a role
\* other than user, model (Gemini) or assistant (OpenAI-compatible), besides
\* the system role of the instruction.
C23_NarratorSentAsUser ==
    nPc = "done"
    => IF nPath = "gemini"
       THEN /\ \A t \in 1..Len(nTurns) : nTurns[t].role \in {"user", "model"}
            /\ \A n \in 1..Len(nHistory) :
                  nHistory[n].role = "narrator"
                  => \E t \in 1..Len(nTurns) :
                        /\ nTurns[t].role = "user"
                        /\ \E q \in 1..Len(nTurns[t].parts) :
                              nTurns[t].parts[q] = TextPart(<<"[NARRATOR]:">> \o nHistory[n].content)
       ELSE /\ \A t \in 1..Len(nTurns) : nTurns[t].role \in {"user", "assistant", "system"}
            /\ \A n \in 1..Len(nHistory) :
                  nHistory[n].role = "narrator"
                  => /\ nTurns[n + 1].role = "user"
                     /\ nTurns[n + 1].content # <<>>
                     /\ nTurns[n + 1].content[1] = "[NARRATOR]:"

(***************************************************************************)
(* The read loop of streamOpenAIChatResponse on the characters of the body *)
(***************************************************************************)

\* Bound: the provider sends at most MaxLines lines.
MaxLines == 3

\* The body is a sequence of characters.  Some runs of characters that the
\* loop never looks into are one element: "data:", "[DONE", the text "a" or
\* "b" of a delta.  A read can end between any two elements, so also between
\* "data:" and the space, inside the JSON payload and inside the marker.
Texts == {"a", "b"}

\* A line the provider sends, with its line end.
Line(kind, content, end) == [kind |-> kind, content |-> content, end |-> end]

\* The lines of the model: an event with a text delta (ended by LF or CRLF),
\* an event without content, an event whose JSON is cut off, the [DONE]
\* marker, the blank line between events, a comment line, and a last line
\* that the end of the stream cuts off before its line end.
LineKinds ==
    { Line("delta", "a", <<"\n">>),
      Line("delta", "b", <<"\r", "\n">>),
      Line("empty", "-", <<"\n">>),
      Line("malformed", "a", <<"\n">>),
      Line("done", "-", <<"\n">>),
      Line("blank", "-", <<"\n">>),
      Line("comment", "-", <<"\n">>) }

CutOffLine == Line("delta", "a", <<>>)

\* The streams of the model: up to MaxLines complete lines, after which the
\* stream ends, possibly in the middle of one more line.
LineSequences ==
    LET complete == UNION { [1..k -> LineKinds] : k \in 0..MaxLines }
    IN  complete \cup { Append(q, CutOffLine) : q \in {r \in complete : Len(r) < MaxLines} }

\* The bodies of a provider that does not stream: the whole answer as one
\* JSON document without `data:` framing, on one line (with or without a
\* line end after it) or printed over three lines.
WholeBodies ==
    { <<Line("whole", t, end)>> : t \in Texts, end \in {<<>>, <<"\n">>, <<"\r", "\n">>} }
    \cup { <<Line("open", "-", <<"\n">>), Line("member", t, <<"\n">>), Line("close", "-", end)>> :
              t \in Texts, end \in {<<>>, <<"\n">>} }

\* The answer a body of WholeBodies carries.
WholeAnswer(lines) == IF Len(lines) = 1 THEN lines[1].content ELSE lines[2].content

\* The characters of one line as the provider writes it.
Encode(line) ==
    (CASE line.kind = "delta"     -> <<"data:", " ", "{", line.content, "}">>
       [] line.kind = "empty"     -> <<"data:", " ", "{", "}">>
       [] line.kind = "malformed" -> <<"data:", " ", "{", line.content>>
       [] line.kind = "done"      -> <<"data:", " ", "[DONE", "]">>
       [] line.kind = "blank"     -> <<>>
       [] line.kind = "comment"   -> <<":", " ">>
       [] line.kind = "whole"     -> <<"{", "choices:", "[", "message:", line.content, "]", "}">>
       [] line.kind = "open"      -> <<"{", "choices:", "[">>
       [] line.kind = "member"    -> <<" ", "message:", line.content>>
       [] line.kind = "close"     -> <<"]", "}">>)
    \o line.end

RECURSIVE EncodeAll(_)
EncodeAll(lines) ==
    IF lines = <<>> THEN <<>>
    ELSE EncodeAll(SubSeq(lines, 1, Len(lines) - 1)) \o Encode(lines[Len(lines)])

\* The pieces of a string one character longer: a line feed opens a new
\* piece, any other character extends the last one.
SplitAppend(pieces, char) ==
    IF char = "\n"
    THEN Append(pieces, <<>>)
    ELSE [pieces EXCEPT ![Len(pieces)] = Append(@, char)]

\* String.split('\n')
RECURSIVE Split(_)
Split(str) ==
    IF str = <<>> THEN << <<>> >>
    ELSE SplitAppend(Split(SubSeq(str, 1, Len(str) - 1)), str[Len(str)])

WhiteSpace == {" ", "\r", "\n"}

\* String.trim()
RECURSIVE Trim(_)
Trim(str) ==
    IF str = <<>> THEN <<>>
    ELSE IF str[1] \in WhiteSpace THEN Trim(Tail(str))
    ELSE IF str[Len(str)] \in WhiteSpace THEN Trim(SubSeq(str, 1, Len(str) - 1))
    ELSE str

\* trimmed.startsWith('data: ')
StartsWithData(str) == Len(str) >= 2 /\ str[1] = "data:" /\ str[2] = " "

\* JSON.parse(data), then choices[0].delta.content: the text, <<>> when the
\* JSON has no content, and a failure when the JSON does not parse.
ParseContent(data) ==
    LET json == Trim(data)
    IN  IF Len(json) = 3 /\ json[1] = "{" /\ json[2] \in Texts /\ json[3] = "}"
        THEN [parsed |-> TRUE, content |-> <<json[2]>>]
        ELSE IF json = <<"{", "}">>
        THEN [parsed |-> TRUE, content |-> <<>>]
        ELSE [parsed |-> FALSE, content |-> <<>>]

\* A loop body in which a JSON that does not parse ends the call (mutant).
LineEffectStrict(line) ==
    LET trimmed == Trim(line)
        data    == SubSeq(trimmed, 3, Len(trimmed))
    IN  IF ~StartsWithData(trimmed) THEN [returns |-> FALSE, emits |-> <<>>]
        ELSE IF data = <<"[DONE", "]">> THEN [returns |-> TRUE, emits |-> <<>>]
        ELSE IF ~ParseContent(data).parsed THEN [returns |-> TRUE, emits |-> <<>>]
        ELSE [returns |-> FALSE, emits |-> ParseContent(data).content]

\* The body of `for (const line of lines)`: whether it returns, and the
\* arguments of the onChunk calls it makes (at most one).
LineEffect(line) ==
    LET trimmed == Trim(line)
        data    == SubSeq(trimmed, 3, Len(trimmed))
    IN  IF ~StartsWithData(trimmed) THEN [returns |-> FALSE, emits |-> <<>>]
        ELSE IF data = <<"[DONE", "]">> THEN [returns |-> TRUE, emits |-> <<>>]
        ELSE IF ~ParseContent(data).parsed THEN [returns |-> FALSE, emits |-> <<>>]
        ELSE [returns |-> FALSE, emits |-> ParseContent(data).content]

\* The onChunk arguments of the loop bodies for lines[1..k].
RECURSIVE Emits(_, _)
Emits(lines, k) ==
    IF k = 0 THEN <<>> ELSE Emits(lines, k - 1) \o LineEffect(lines[k]).emits

\* The for loop over lines[1..k]: it runs up to the first line whose body
\* returns.
LinesEffect(lines, k) ==
    LET returning == {j \in 1..k : LineEffect(lines[j]).returns}
    IN  IF returning = {}
        THEN [returns |-> FALSE, emits |-> Emits(lines, k)]
        ELSE [returns |-> TRUE,
              emits   |-> Emits(lines, CHOOSE j \in returning : \A q \in returning : j <= q)]

\* A loop iteration that forgets the unfinished line of the last read
\* (mutant).
ReadEffectUnbuffered(buf, value) ==
    LET lines == Split(value)
    IN  [buffer  |-> lines[Len(lines)],
         returns |-> LinesEffect(lines, Len(lines) - 1).returns,
         emits   |-> LinesEffect(lines, Len(lines) - 1).emits]

\* One iteration of the while loop after reader.read() delivered `value`:
\* buffer += value; lines = buffer.split('\n'); buffer = lines.pop(); the
\* for loop.
ReadEffect(buf, value) ==
    LET lines == Split(buf \o value)
    IN  [buffer  |-> lines[Len(lines)],
         returns |-> LinesEffect(lines, Len(lines) - 1).returns,
         emits   |-> LinesEffect(lines, Len(lines) - 1).emits]

\* reader.read() delivers the next n characters.
EventRead ==
    /\ ePc = "reading"
    /\ \E n \in 1..(Len(eWire) - ePos) :
          LET effect == ReadEffect(eBuffer, SubSeq(eWire, ePos + 1, ePos + n))
          IN  /\ ePos' = ePos + n
              /\ eBuffer' = effect.buffer
              /\ eOut' = eOut \o effect.emits
              /\ ePc' = IF effect.returns THEN "returned" ELSE "reading"
    /\ UNCHANGED <<eLines, eWire>>
    /\ UNCHANGED <<retryVars, gateVars, chunkVars, ragVars, streamVars, histVars, imageVars, callVars, ttsVars, libVars>>

\* reader.read() reports done: break.
EventStreamEnds ==
    /\ ePc = "reading"
    /\ ePos = Len(eWire)
    /\ ePc' = "returned"
    /\ UNCHANGED <<eLines, eWire, ePos, eBuffer, eOut>>
    /\ UNCHANGED <<retryVars, gateVars, chunkVars, ragVars, streamVars, histVars, imageVars, callVars, ttsVars, libVars>>

EventNext ==
    \/ EventRead
    \/ EventStreamEnds

(***************************************************************************)
(* Properties of the read loop (checked under SpecEvents)                  *)
(***************************************************************************)

\* The lines sent before the first [DONE] marker.
BeforeDone(lines) ==
    LET marks == {k \in 1..Len(lines) : lines[k].kind = "done"}
    IN  IF marks = {} THEN lines
        ELSE SubSeq(lines, 1, (CHOOSE k \in marks : \A j \in marks : k <= j) - 1)

\* A well-formed event with a non-empty text delta.
CarriesDelta(line) == line.kind = "delta" /\ line.end # <<>>

\* The texts of the events of `lines` that carry a delta, in order.
RECURSIVE DeltasOf(_)
DeltasOf(lines) ==
    IF lines = <<>> THEN <<>>
    ELSE DeltasOf(SubSeq(lines, 1, Len(lines) - 1))
         \o (IF CarriesDelta(lines[Len(lines)]) THEN <<lines[Len(lines)].content>> ELSE <<>>)

IsPrefix(p, q) == Len(p) <= Len(q) /\ SubSeq(q, 1, Len(p)) = p

\* C24: when the call has returned, the arguments of onChunk are exactly the
\* text deltas of the well-formed events sent before the [DONE] marker or the
\* end of the stream, in order; until then they are a prefix of them; events
\* that do not parse, events without content and other lines add nothing and
\* end nothing; and no call of onChunk follows the return at [DONE].
C24_DeltasInArrivalOrder ==
    /\ [](IsPrefix(eOut, DeltasOf(BeforeDone(eLines))))
    /\ [](ePc = "returned" => eOut = DeltasOf(BeforeDone(eLines)))
    /\ [][ePc = "returned" => eOut' = eOut]_vars

\* C24 (witness): a delta, an event cut off in its JSON and a second delta
\* were sent; the call returned at the end of the stream after two calls of
\* onChunk.
C24_MalformedBetweenDeltas ==
    /\ ePc = "returned"
    /\ Len(eLines) = 3
    /\ eLines[1].kind = "delta"
    /\ eLines[2].kind = "malformed"
    /\ eLines[3].kind = "delta"
    /\ eOut = <<eLines[1].content, eLines[3].content>>

\* C25: whatever the reads so far, the calls of onChunk made are those of
\* the loop that receives the same characters in a single read, and the
\* call has returned exactly when that loop has.
C25_ReadsDoNotMatter ==
    LET single == ReadEffect(<<>>, SubSeq(eWire, 1, ePos))
    IN  /\ eOut = single.emits
        /\ (ePc = "reading") => ~single.returns
        /\ (ePc = "reading") => eBuffer = single.buffer
        /\ (ePc = "returned" /\ ePos < Len(eWire)) => single.returns

\* C25 (witness): after the first delta was delivered, a read ended inside
\* the JSON payload of the next event, which waits in the buffer.
C25_ReadEndedInsidePayload ==
    /\ ePc = "reading"
    /\ Len(eOut) = 1
    /\ eBuffer = <<"data:", " ", "{">>

(***************************************************************************)
(* generateImageFromPrompt, from the statement after the rate gate on,     *)
(* with generateAIHordeImage step by step                                  *)
(***************************************************************************)

MaxPollAttempts == 60
PollInterval    == 2000

\* The values of settings.service: the services of the switch, an absent
\* value and a value the switch does not list.
ImageServices ==
    { "openai", "imagerouter", "pollinations", "huggingface", "stability", "aihorde",
      "gemini", "default", NoConfig, "midjourney" }

\* safeSettings.service || 'default'
ServiceOrDefault(service) == IF service = NoConfig THEN "default" ELSE service

\* A switch whose default case is the Pollinations adapter (mutant).
ImageAdapterForPollinations(service) ==
    CASE service \in {"openai", "imagerouter"} -> "openai"
      [] service = "huggingface" -> "huggingface"
      [] service = "stability" -> "stability"
      [] service = "aihorde" -> "aihorde"
      [] OTHER -> "pollinations"

\* The adapter the switch calls for a service.
ImageAdapterFor(service) ==
    CASE service \in {"openai", "imagerouter"} -> "openai"
      [] service = "pollinations" -> "pollinations"
      [] service = "huggingface" -> "huggingface"
      [] service = "stability" -> "stability"
      [] service = "aihorde" -> "aihorde"
      [] OTHER -> "gemini"

\* new Error(`${service} requires a configured API endpoint.`)
EndpointRequired(service) ==
    [kind |-> "Error", message |-> <<service, "requires", "a", "configured", "API", "endpoint.">>, status |-> 0]

\* What an adapter can throw.
AdapterErrors ==
    { [kind |-> "Error", message |-> <<"adapter", "error">>, status |-> 0],
      [kind |-> "Other", message |-> Undefined, status |-> 0] }

HordeInitError ==
    [kind |-> "Error", message |-> <<"AI", "Horde", "Init", "Error:", "body">>, status |-> 0]

HordeNoJobId ==
    [kind |-> "Error", message |-> <<"AI", "Horde", "did", "not", "return", "a", "Job", "ID.">>, status |-> 0]

HordeNoImage ==
    [kind |-> "Error", message |-> <<"AI", "Horde", "finished", "but", "returned", "no", "image.">>, status |-> 0]

HordeImpossible ==
    [kind |-> "Error", message |-> <<"AI", "Horde", "says", "generation", "is", "impossible",
                                     "with", "current", "settings.">>, status |-> 0]

HordeTimedOut ==
    [kind |-> "Error", message |-> <<"AI", "Horde", "generation", "timed", "out.">>, status |-> 0]

\* The prompts: UTF-16 code units, "hi" a high surrogate, "lo" a low one.
Prompts == { <<"a">>, <<"hi", "lo">>, <<"a", "hi">>, <<"lo", "a">> }

\* The text buildImagePrompt returns: style prefix, prompt, negative prompt.
buildImagePrompt(prompt, stylePrompt, negativePrompt) == stylePrompt \o prompt \o negativePrompt

\* encodeURIComponent accepts a string: every surrogate is one half of a pair.
WellFormed(str) ==
    \A n \in 1..Len(str) :
        /\ str[n] = "hi" => (IF n < Len(str) THEN str[n + 1] = "lo" ELSE FALSE)
        /\ str[n] = "lo" => (IF n > 1 THEN str[n - 1] = "hi" ELSE FALSE)

\* The URIError of encodeURIComponent.
UriMalformed == [kind |-> "Error", message |-> <<"URI", "malformed">>, status |-> 0]

\* The catch block of generateImageFromPrompt: a new error that carries the
\* message of the caught one.
ImageCatch(error) ==
    Throws([kind    |-> "Error",
            message |-> <<"Image", "generation", "failed.", "Details:">>
                        \o (IF error.kind = "Error" THEN error.message
                            ELSE <<"An", "unknown", "error", "occurred">>),
            status  |-> 0])

ImageUrl == <<"data:image/png;base64">>

DirectUrl == <<"https://image.pollinations.ai/prompt">>

\* case 'openai', 'imagerouter' without settings.apiEndpoint: the throw, then
\* the catch block.
ImageMissingEndpoint ==
    /\ gPc = "idle"
    /\ ServiceOrDefault(gService) \in {"openai", "imagerouter"}
    /\ ~gEndpoint
    /\ gEnd' = ImageCatch(EndpointRequired(gService))
    /\ gPc' = "thrown"
    /\ UNCHANGED <<gService, gEndpoint, gPrompt, gAdapters, attempts, hSubmits, hPolls, hDelays, hSeen>>
    /\ UNCHANGED <<retryVars, gateVars, chunkVars, ragVars, streamVars, histVars, eventVars, callVars, ttsVars, libVars>>

\* The switch calls an adapter other than generateAIHordeImage.
ImageAdapterCall ==
    /\ gPc = "idle"
    /\ ServiceOrDefault(gService) \in {"openai", "imagerouter"} => gEndpoint
    /\ ImageAdapterFor(ServiceOrDefault(gService)) # "aihorde"
    /\ gAdapters' = Append(gAdapters, ImageAdapterFor(ServiceOrDefault(gService)))
    /\ gPc' = "adapter"
    /\ UNCHANGED <<gService, gEndpoint, gPrompt, gEnd, attempts, hSubmits, hPolls, hDelays, hSeen>>
    /\ UNCHANGED <<retryVars, gateVars, chunkVars, ragVars, streamVars, histVars, eventVars, callVars, ttsVars, libVars>>

\* The adapter returns the image.
ImageAdapterReturns ==
    /\ gPc = "adapter"
    /\ gAdapters[Len(gAdapters)] = "pollinations" => WellFormed(buildImagePrompt(gPrompt, <<>>, <<>>))
    /\ gEnd' = Returned(ImageUrl)
    /\ gPc' = "returned"
    /\ UNCHANGED <<gService, gEndpoint, gPrompt, gAdapters, attempts, hSubmits, hPolls, hDelays, hSeen>>
    /\ UNCHANGED <<retryVars, gateVars, chunkVars, ragVars, streamVars, histVars, eventVars, callVars, ttsVars, libVars>>

\* generatePollinationsImage: the download fails, the catch block returns the
\* direct url.
PollinationsFallsBack ==
    /\ gPc = "adapter"
    /\ gAdapters[Len(gAdapters)] = "pollinations"
    /\ WellFormed(buildImagePrompt(gPrompt, <<>>, <<>>))
    /\ gEnd' = Returned(DirectUrl)
    /\ gPc' = "returned"
    /\ UNCHANGED <<gService, gEndpoint, gPrompt, gAdapters, attempts, hSubmits, hPolls, hDelays, hSeen>>
    /\ UNCHANGED <<retryVars, gateVars, chunkVars, ragVars, streamVars, histVars, eventVars, callVars, ttsVars, libVars>>

\* generatePollinationsImage, before its try block: encodeURIComponent throws
\* on the prompt; the catch block of generateImageFromPrompt.
PollinationsEncodeFails ==
    /\ gPc = "adapter"
    /\ gAdapters[Len(gAdapters)] = "pollinations"
    /\ ~WellFormed(buildImagePrompt(gPrompt, <<>>, <<>>))
    /\ gEnd' = ImageCatch(UriMalformed)
    /\ gPc' = "thrown"
    /\ UNCHANGED <<gService, gEndpoint, gPrompt, gAdapters, attempts, hSubmits, hPolls, hDelays, hSeen>>
    /\ UNCHANGED <<retryVars, gateVars, chunkVars, ragVars, streamVars, histVars, eventVars, callVars, ttsVars, libVars>>

\* Another adapter throws: the catch block of generateImageFromPrompt.
ImageAdapterFails ==
    /\ gPc = "adapter"
    /\ gAdapters[Len(gAdapters)] # "pollinations"
    /\ \E error \in AdapterErrors : gEnd' = ImageCatch(error)
    /\ gPc' = "thrown"
    /\ UNCHANGED <<gService, gEndpoint, gPrompt, gAdapters, attempts, hSubmits, hPolls, hDelays, hSeen>>
    /\ UNCHANGED <<retryVars, gateVars, chunkVars, ragVars, streamVars, histVars, eventVars, callVars, ttsVars, libVars>>

\* case 'aihorde': generateAIHordeImage up to its first await, fetchWithRetry
\* makes the first request that submits the job.
HordeSubmit ==
    /\ gPc = "idle"
    /\ ImageAdapterFor(ServiceOrDefault(gService)) = "aihorde"
    /\ gAdapters' = Append(gAdapters, "aihorde")
    /\ hSubmits' = 1
    /\ gPc' = "submit"
    /\ UNCHANGED <<gService, gEndpoint, gPrompt, gEnd, attempts, hPolls, hDelays, hSeen>>
    /\ UNCHANGED <<retryVars, gateVars, chunkVars, ragVars, streamVars, histVars, eventVars, callVars, ttsVars, libVars>>

\* fetchWithRetry rejects.
HordeSubmitFails ==
    /\ gPc = "submit"
    /\ \E run \in RetryRuns("fetch", 0, DefaultMaxRetries) :
          /\ run.end.kind = "throw"
          /\ hSubmits' = run.requests
          /\ gEnd' = ImageCatch(run.end.error)
    /\ gPc' = "thrown"
    /\ UNCHANGED <<gService, gEndpoint, gPrompt, gAdapters, attempts, hPolls, hDelays, hSeen>>
    /\ UNCHANGED <<retryVars, gateVars, chunkVars, ragVars, streamVars, histVars, eventVars, callVars, ttsVars, libVars>>

\* The submission is answered with a response that is not ok, or without a
\* job id.
HordeSubmitRejected ==
    /\ gPc = "submit"
    /\ \E run \in RetryRuns("fetch", 0, DefaultMaxRetries) :
          /\ run.end.kind = "return"
          /\ hSubmits' = run.requests
          /\ gEnd' = ImageCatch(IF run.end.value.status = 200 THEN HordeNoJobId ELSE HordeInitError)
    /\ gPc' = "thrown"
    /\ UNCHANGED <<gService, gEndpoint, gPrompt, gAdapters, attempts, hPolls, hDelays, hSeen>>
    /\ UNCHANGED <<retryVars, gateVars, chunkVars, ragVars, streamVars, histVars, eventVars, callVars, ttsVars, libVars>>

\* The submission is answered with a job id: let attempts = 0, and the first
\* timer of the loop is set.
HordeSubmitAccepted ==
    /\ gPc = "submit"
    /\ \E run \in RetryRuns("fetch", 0, DefaultMaxRetries) :
          /\ run.end.kind = "return"
          /\ run.end.value.status = 200
          /\ hSubmits' = run.requests
    /\ attempts' = 0
    /\ hDelays' = Append(hDelays, PollInterval)
    /\ gPc' = "sleep"
    /\ UNCHANGED <<gService, gEndpoint, gPrompt, gAdapters, gEnd, hPolls, hSeen>>
    /\ UNCHANGED <<retryVars, gateVars, chunkVars, ragVars, streamVars, histVars, eventVars, callVars, ttsVars, libVars>>

\* The timer fires: fetch(status/id)
HordeWake ==
    /\ gPc = "sleep"
    /\ hPolls' = hPolls + 1
    /\ gPc' = "poll"
    /\ UNCHANGED <<gService, gEndpoint, gPrompt, gAdapters, gEnd, attempts, hSubmits, hDelays, hSeen>>
    /\ UNCHANGED <<retryVars, gateVars, chunkVars, ragVars, streamVars, histVars, eventVars, callVars, ttsVars, libVars>>

\* A while condition that lets one more iteration run (mutant).
PollAgainInclusive(n) == n <= MaxPollAttempts

\* while (attempts < 60)
PollAgain(n) == n < MaxPollAttempts

\* The status request is answered by a response that is not ok ("not ok"),
\* or by one that reports the job neither done nor impossible ("pending"):
\* attempts++, then the while condition: the next timer, or the time-out.
HordeStatusWaiting ==
    /\ gPc = "poll"
    /\ \E answer \in {"not ok", "pending"} : hSeen' = hSeen \cup {answer}
    /\ attempts' = attempts + 1
    /\ IF PollAgain(attempts + 1)
       THEN /\ hDelays' = Append(hDelays, PollInterval)
            /\ gPc' = "sleep"
            /\ UNCHANGED gEnd
       ELSE /\ gEnd' = ImageCatch(HordeTimedOut)
            /\ gPc' = "thrown"
            /\ UNCHANGED hDelays
    /\ UNCHANGED <<gService, gEndpoint, gPrompt, gAdapters, hSubmits, hPolls>>
    /\ UNCHANGED <<retryVars, gateVars, chunkVars, ragVars, streamVars, histVars, eventVars, callVars, ttsVars, libVars>>

\* The status reports the job done, with an image.
HordeStatusDone ==
    /\ gPc = "poll"
    /\ hSeen' = hSeen \cup {"done"}
    /\ gEnd' = Returned(ImageUrl)
    /\ gPc' = "returned"
    /\ UNCHANGED <<gService, gEndpoint, gPrompt, gAdapters, attempts, hSubmits, hPolls, hDelays>>
    /\ UNCHANGED <<retryVars, gateVars, chunkVars, ragVars, streamVars, histVars, eventVars, callVars, ttsVars, libVars>>

\* The status reports the job done without an image, or impossible.
HordeStatusRefused ==
    /\ gPc = "poll"
    /\ \E answer \in {"done", "impossible"} :
          /\ hSeen' = hSeen \cup {answer}
          /\ gEnd' = ImageCatch(IF answer = "done" THEN HordeNoImage ELSE HordeImpossible)
    /\ gPc' = "thrown"
    /\ UNCHANGED <<gService, gEndpoint, gPrompt, gAdapters, attempts, hSubmits, hPolls, hDelays>>
    /\ UNCHANGED <<retryVars, gateVars, chunkVars, ragVars, streamVars, histVars, eventVars, callVars, ttsVars, libVars>>

\* fetch rejects, or the body of an ok response is no JSON: the error leaves
\* the loop.
HordeStatusFails ==
    /\ gPc = "poll"
    /\ hSeen' = hSeen \cup {"failed"}
    /\ \E error \in {FetchRejects.error} : gEnd' = ImageCatch(error)
    /\ gPc' = "thrown"
    /\ UNCHANGED <<gService, gEndpoint, gPrompt, gAdapters, attempts, hSubmits, hPolls, hDelays>>
    /\ UNCHANGED <<retryVars, gateVars, chunkVars, ragVars, streamVars, histVars, eventVars, callVars, ttsVars, libVars>>

ImageNext ==
    \/ ImageMissingEndpoint
    \/ ImageAdapterCall
    \/ ImageAdapterReturns
    \/ PollinationsFallsBack
    \/ PollinationsEncodeFails
    \/ ImageAdapterFails
    \/ HordeSubmit
    \/ HordeSubmitFails
    \/ HordeSubmitRejected
    \/ HordeSubmitAccepted
    \/ HordeWake
    \/ HordeStatusWaiting
    \/ HordeStatusDone
    \/ HordeStatusRefused
    \/ HordeStatusFails

\* One call of streamChatResponse or one call of generateImageFromPrompt.
DispatchNext ==
    \/ StreamNext
    \/ ImageNext

(***************************************************************************)
(* Properties of the dispatch on config.service and of the AI Horde        *)
(* polling (checked under SpecDispatch and SpecDispatchFair)               *)
(***************************************************************************)

\* C26 (as stated): for every value of the service, a call that has passed
\* its dispatch has invoked exactly one provider adapter.
C26_ExactlyOneAdapter ==
    /\ sPc # "idle" => Len(sAdapters) = 1
    /\ gPc # "idle" => Len(gAdapters) = 1

\* C26 (amended): a call invokes at most one provider adapter.  Past its
\* dispatch, streamChatResponse has invoked the OpenAI-compatible adapter for
\* service 'openai' with an endpoint, no adapter for 'openai' without an
\* endpoint (it reports the missing endpoint instead), and the Gemini adapter
\* for every other value, absent and unrecognised ones included;
\* generateImageFromPrompt has invoked the adapter named by the service, no
\* adapter for 'openai' or 'imagerouter' without an endpoint (it throws
\* instead), and the Gemini adapter for 'gemini', 'default', absent and
\* unrecognised values.  An absent service never ends in the missing-endpoint
\* error.
C26_OneAdapterUnlessEndpointMissing ==
    /\ Len(sAdapters) <= 1
    /\ Len(gAdapters) <= 1
    /\ sPc # "idle"
         => sAdapters = (IF sService = "openai"
                         THEN (IF sEndpoint THEN <<"openai">> ELSE <<>>)
                         ELSE <<"gemini">>)
    /\ gPc # "idle"
         => gAdapters = (IF gService \in {"openai", "imagerouter"}
                         THEN (IF gEndpoint THEN <<"openai">> ELSE <<>>)
                         ELSE IF gService \in {"pollinations", "huggingface", "stability", "aihorde"}
                         THEN <<gService>>
                         ELSE <<"gemini">>)
    /\ sService = NoConfig => sFailure # MissingEndpoint
    /\ gService = NoConfig => gEnd \notin {ImageCatch(EndpointRequired(v)) : v \in ImageServices \cup {"default"}}

\* C26 (witness): generateImageFromPrompt for a service the switch does not
\* list, without an endpoint, returned the image of the Gemini adapter.
C26_UnrecognisedServiceServedByGemini ==
    /\ gService = "midjourney"
    /\ ~gEndpoint
    /\ gAdapters = <<"gemini">>
    /\ gPc = "returned"

HordeEnded == gPc \in {"returned", "thrown"}

\* The job was submitted and accepted: the loop set its first timer.
HordeAccepted == gService = "aihorde" /\ hDelays # <<>>

WrapsAdapterMessage(end) ==
    \E error \in AdapterErrors \cup {HordeInitError, HordeNoJobId, HordeNoImage, HordeImpossible, HordeTimedOut} :
        /\ error.kind = "Error"
        /\ end = ImageCatch(error)

\* C38 (as claimed): a call with service 'pollinations' that has ended has
\* returned, whatever failed; a call for another service whose adapter failed
\* has thrown one error that wraps the message of the adapter.
C38_PollinationsAlwaysResolves ==
    /\ (gService = "pollinations" /\ gPc \in {"returned", "thrown"}) => gPc = "returned"
    /\ (gService # "pollinations" /\ gPc = "thrown" /\ gAdapters # <<>>) => WrapsAdapterMessage(gEnd)

\* C38 (what holds): a call with service 'pollinations' whose prompt
\* encodeURIComponent accepts never throws.
C38_ResolvesOnWellFormedPrompt ==
    (gService = "pollinations" /\ WellFormed(buildImagePrompt(gPrompt, <<>>, <<>>)))
    => gPc # "thrown"

\* C38 (failing run): the prompt holds an unpaired surrogate, the adapter was
\* called, and generateImageFromPrompt has thrown the wrapped URIError.
C38_MalformedPromptThrown ==
    /\ gService = "pollinations"
    /\ gAdapters = <<"pollinations">>
    /\ ~WellFormed(buildImagePrompt(gPrompt, <<>>, <<>>))
    /\ gPc = "thrown"
    /\ gEnd = ImageCatch(UriMalformed)

(***************************************************************************)
(* Properties of the read loop on a body that is not an event stream       *)
(* (checked under SpecWhole)                                               *)
(***************************************************************************)

\* C33 (as claimed): when the body is the whole answer in one JSON document
\* without `data:` framing, the call that has returned has passed the answer
\* to onChunk, as exactly one chunk.
C33_WholeAnswerOneChunk ==
    (ePc = "returned" /\ eLines \in WholeBodies) => eOut = <<WholeAnswer(eLines)>>

\* C33 (failing run): the whole body was read, the stream ended, and the
\* call returned without any onChunk call.
C33_WholeAnswerDropped ==
    /\ eLines \in WholeBodies
    /\ ePos = Len(eWire)
    /\ ePc = "returned"
    /\ eOut = <<>>

(***************************************************************************)
(* A call from the rate gate to its provider requests: the gate of         *)
(* streamChatResponse / generateImageFromPrompt, then the adapter's        *)
(* withRetry around the request                                            *)
(***************************************************************************)

\* Bound: the calls that are followed through their provider requests.
NGated == 1

GatedCalls == 1..Min(NGated, NCalls)

\* The clock of the gate counts in units of the longest first backoff, in
\* milliseconds.
TickMs == DefaultInitialDelay + JitterRange

\* What apiCall can do, for withRetry around a fetch and around an SDK call.
RequestOutcomes == OpOutcomes("fetch") \cup OpOutcomes("generic")

\* The first apiCall() of withRetry, after the gate and the code between the
\* gate and the adapter.
FirstRequest(c) ==
    /\ cPc[c] = "dispatched"
    /\ qPc[c] = "none"
    /\ qSent' = [qSent EXCEPT ![c] = Append(@, now)]
    /\ qPc' = [qPc EXCEPT ![c] = "inflight"]
    /\ UNCHANGED <<qAttempt, qFrom>>
    /\ UNCHANGED <<now, lastRequestTimestamps, cPc, cKind, cChar, cRate, cArrive, cLast, cLeave>>
    /\ UNCHANGED <<retryVars, chunkVars, ragVars, streamVars, histVars, eventVars, imageVars, ttsVars, libVars>>

\* return await apiCall()
RequestReturns(c) ==
    /\ qPc[c] = "inflight"
    /\ {out \in RequestOutcomes : out.ok} # {}
    /\ qPc' = [qPc EXCEPT ![c] = "done"]
    /\ UNCHANGED <<qAttempt, qFrom, qSent>>
    /\ UNCHANGED <<now, lastRequestTimestamps, cPc, cKind, cChar, cRate, cArrive, cLast, cLeave>>
    /\ UNCHANGED <<retryVars, chunkVars, ragVars, streamVars, histVars, eventVars, imageVars, ttsVars, libVars>>

\* A rate-limit error with attempts left: await setTimeout(delay)
RequestThrottled(c) ==
    /\ qPc[c] = "inflight"
    /\ {out \in RequestOutcomes : ~out.ok /\ IsRateLimitError(out.error)} # {}
    /\ ~(qAttempt[c] + 1 >= DefaultMaxRetries)
    /\ qFrom' = [qFrom EXCEPT ![c] = now]
    /\ qPc' = [qPc EXCEPT ![c] = "backoff"]
    /\ UNCHANGED <<qAttempt, qSent>>
    /\ UNCHANGED <<now, lastRequestTimestamps, cPc, cKind, cChar, cRate, cArrive, cLast, cLeave>>
    /\ UNCHANGED <<retryVars, chunkVars, ragVars, streamVars, histVars, eventVars, imageVars, ttsVars, libVars>>

\* Any other error, or a rate-limit error on the last attempt: throw error
RequestGivenUp(c) ==
    /\ qPc[c] = "inflight"
    /\ {out \in RequestOutcomes :
            ~out.ok /\ (IsRateLimitError(out.error) => qAttempt[c] + 1 >= DefaultMaxRetries)} # {}
    /\ qPc' = [qPc EXCEPT ![c] = "failed"]
    /\ UNCHANGED <<qAttempt, qFrom, qSent>>
    /\ UNCHANGED <<now, lastRequestTimestamps, cPc, cKind, cChar, cRate, cArrive, cLast, cLeave>>
    /\ UNCHANGED <<retryVars, chunkVars, ragVars, streamVars, histVars, eventVars, imageVars, ttsVars, libVars>>

\* A retry that passes the gate's bookkeeping again (mutant).
BackoffWakeRecorded(c) ==
    /\ qPc[c] = "backoff"
    /\ {jitter \in Jitters :
            (now - qFrom[c]) * TickMs >= BackoffDelay(DefaultInitialDelay, qAttempt[c], jitter)} # {}
    /\ qAttempt' = [qAttempt EXCEPT ![c] = @ + 1]
    /\ qSent' = [qSent EXCEPT ![c] = Append(@, now)]
    /\ qPc' = [qPc EXCEPT ![c] = "inflight"]
    /\ lastRequestTimestamps' = MapSet(RateKey(cKind[c], cChar[c]), now)
    /\ UNCHANGED qFrom
    /\ UNCHANGED <<now, cPc, cKind, cChar, cRate, cArrive, cLast, cLeave>>
    /\ UNCHANGED <<retryVars, chunkVars, ragVars, streamVars, histVars, eventVars, imageVars, ttsVars, libVars>>

\* The backoff timer fires (not before `delay` has passed): attempt++;
\* continue; the next apiCall()
BackoffWake(c) ==
    /\ qPc[c] = "backoff"
    /\ {jitter \in Jitters :
            (now - qFrom[c]) * TickMs >= BackoffDelay(DefaultInitialDelay, qAttempt[c], jitter)} # {}
    /\ qAttempt' = [qAttempt EXCEPT ![c] = @ + 1]
    /\ qSent' = [qSent EXCEPT ![c] = Append(@, now)]
    /\ qPc' = [qPc EXCEPT ![c] = "inflight"]
    /\ UNCHANGED qFrom
    /\ UNCHANGED <<now, lastRequestTimestamps, cPc, cKind, cChar, cRate, cArrive, cLast, cLeave>>
    /\ UNCHANGED <<retryVars, chunkVars, ragVars, streamVars, histVars, eventVars, imageVars, ttsVars, libVars>>

GatedCallNext ==
    \/ Tick
    \/ \E c \in GatedCalls : GateSkip(c)
    \/ \E c \in GatedCalls : GatePass(c)
    \/ \E c \in GatedCalls : GateSuspend(c)
    \/ \E c \in GatedCalls : GateWake(c)
    \/ \E c \in GatedCalls : FirstRequest(c)
    \/ \E c \in GatedCalls : RequestReturns(c)
    \/ \E c \in GatedCalls : RequestThrottled(c)
    \/ \E c \in GatedCalls : RequestGivenUp(c)
    \/ \E c \in GatedCalls : BackoffWake(c)

(***************************************************************************)
(* Properties of the gate and the retried requests (checked under          *)
(* SpecGatedCall)                                                          *)
(***************************************************************************)

\* C39: a call passes the gate once, before its first provider request: a
\* call that has left the gate never enters it again, its first request is
\* not made before it has left, and lastRequestTimestamps changes only in a
\* step in which a call leaves the gate.  The steps of withRetry (request,
\* answer, backoff, retry) read the clock only and leave
\* lastRequestTimestamps and the gate state of every call as they were.
C39_GateOnceRetriesOutside ==
    [][ /\ \A c \in Calls :
              /\ cPc[c] = "dispatched" => cPc'[c] = "dispatched"
              /\ qSent'[c] # <<>> => (cPc'[c] = "dispatched" /\ qSent'[c][1] >= cLeave'[c])
              /\ (qPc'[c] # qPc[c] \/ qSent'[c] # qSent[c])
                 => /\ lastRequestTimestamps' = lastRequestTimestamps
                    /\ cPc' = cPc
                    /\ cLeave' = cLeave
        /\ lastRequestTimestamps' # lastRequestTimestamps
           => \E c \in Calls : cPc[c] # "dispatched" /\ cPc'[c] = "dispatched" /\ qSent[c] = <<>>
      ]_vars

\* C39 (witness): a gated call has made a retried request sooner after its
\* first request than its rateLimit, and the timestamp of its key is still
\* the one recorded when it left the gate.
C39_RetrySoonerThanInterval ==
    \E c \in Calls :
        /\ LeftGate(c)
        /\ Len(qSent[c]) >= 2
        /\ qSent[c][2] - qSent[c][1] < cRate[c]
        /\ lastRequestTimestamps[OwnKey(cKind[c], cChar[c])] = cLeave[c]
        /\ cLeave[c] < qSent[c][2]

(***************************************************************************)
(* ttsService: speak, processQueue, cancel and the completions of          *)
(* generateSpeech, of AudioContext.close() and of a playback               *)
(***************************************************************************)

\* Bounds: the utterances passed to speak and the AudioContexts created.
MaxUtterances == 3
MaxContexts   == 2

Utterances == 1..MaxUtterances
Contexts   == 1..MaxContexts
NoContext  == 0
NoItem     == 0

\* processQueue() up to its first await, on the queue, flag and context it
\* finds: nothing when isPlaying or the queue is empty; else initAudioContext
\* (a new context when there is none), isPlaying = true, audioQueue.shift()
\* and generateSpeech is called for the item.
processQueue(queue, playing, context, created) ==
    IF playing \/ queue = <<>>
    THEN [queue |-> queue, playing |-> playing, context |-> context, created |-> created,
          item |-> NoItem]
    ELSE [queue   |-> Tail(queue),
          playing |-> TRUE,
          context |-> IF context = NoContext THEN created + 1 ELSE context,
          created |-> IF context = NoContext THEN created + 1 ELSE created,
          item    |-> Head(queue)]

\* The state a handler leaves that ends with the processQueue() call `run`,
\* after the handler's own updates `pcs` of the utterances.
Leaves(run, pcs) ==
    /\ run.created <= MaxContexts
    /\ audioQueue' = run.queue
    /\ isPlaying' = run.playing
    /\ audioContext' = run.context
    /\ tCreated' = run.created
    /\ uPc' = IF run.item = NoItem THEN pcs ELSE [pcs EXCEPT ![run.item] = "generating"]

\* speak(text) with a text that is not blank: audioQueue.push; processQueue()
speak(u) ==
    /\ uPc[u] = "new"
    /\ \A v \in Utterances : v < u => uPc[v] # "new"
    /\ Leaves(processQueue(Append(audioQueue, u), isPlaying, audioContext, tCreated),
              [uPc EXCEPT ![u] = "queued"])
    /\ UNCHANGED <<tClosing, uCtx, uStale>>
    /\ UNCHANGED <<retryVars, gateVars, chunkVars, ragVars, streamVars, histVars, eventVars, imageVars, callVars, libVars>>

\* generateSpeech resolves and there is an audioContext: decodeAudioData,
\* createBufferSource on the context found now, source.start()
GenerationPlays(u) ==
    /\ uPc[u] = "generating"
    /\ audioContext # NoContext
    /\ uPc' = [uPc EXCEPT ![u] = "playing"]
    /\ uCtx' = [uCtx EXCEPT ![u] = audioContext]
    /\ UNCHANGED <<audioQueue, isPlaying, audioContext, tCreated, tClosing, uStale>>
    /\ UNCHANGED <<retryVars, gateVars, chunkVars, ragVars, streamVars, histVars, eventVars, imageVars, callVars, libVars>>

\* generateSpeech resolves and audioContext is null: decodeAudioData throws;
\* catch: isPlaying = false; processQueue()
GenerationDropped(u) ==
    /\ uPc[u] = "generating"
    /\ audioContext = NoContext
    /\ Leaves(processQueue(audioQueue, FALSE, audioContext, tCreated),
              [uPc EXCEPT ![u] = "skipped"])
    /\ UNCHANGED <<tClosing, uCtx, uStale>>
    /\ UNCHANGED <<retryVars, gateVars, chunkVars, ragVars, streamVars, histVars, eventVars, imageVars, callVars, libVars>>

\* generateSpeech rejects, or the data does not decode;
\* catch: isPlaying = false; processQueue()
GenerationFails(u) ==
    /\ uPc[u] = "generating"
    /\ Leaves(processQueue(audioQueue, FALSE, audioContext, tCreated),
              [uPc EXCEPT ![u] = "skipped"])
    /\ UNCHANGED <<tClosing, uCtx, uStale>>
    /\ UNCHANGED <<retryVars, gateVars, chunkVars, ragVars, streamVars, histVars, eventVars, imageVars, callVars, libVars>>

\* source.onended: isPlaying = false; processQueue()
PlaybackEnds(u) ==
    /\ uPc[u] = "playing"
    /\ Leaves(processQueue(audioQueue, FALSE, audioContext, tCreated),
              [uPc EXCEPT ![u] = "ended"])
    /\ UNCHANGED <<tClosing, uCtx, uStale>>
    /\ UNCHANGED <<retryVars, gateVars, chunkVars, ragVars, streamVars, histVars, eventVars, imageVars, callVars, libVars>>

\* The source of a context that has been closed: whether its ended event is
\* still delivered is left to the browser; if it is, the same handler runs.
CutPlaybackEnds(u) ==
    /\ uPc[u] = "cut"
    /\ Leaves(processQueue(audioQueue, FALSE, audioContext, tCreated),
              [uPc EXCEPT ![u] = "ended"])
    /\ UNCHANGED <<tClosing, uCtx, uStale>>
    /\ UNCHANGED <<retryVars, gateVars, chunkVars, ragVars, streamVars, histVars, eventVars, imageVars, callVars, libVars>>

\* cancel(): audioQueue = []; audioContext.close() when there is a context
\* (its state stays 'running' until the close completes).  The last context
\* of the bound is not closed, so that a context can always be created.
cancel ==
    /\ \E u \in Utterances : uPc[u] # "new"
    /\ audioContext \notin tClosing => audioContext < MaxContexts
    /\ audioQueue' = <<>>
    /\ uPc' = [u \in Utterances |-> IF uPc[u] = "queued" THEN "cancelled" ELSE uPc[u]]
    /\ tClosing' = IF audioContext # NoContext THEN tClosing \cup {audioContext} ELSE tClosing
    /\ uStale' = [u \in Utterances |-> uStale[u] \/ uPc[u] = "generating"]
    /\ UNCHANGED <<isPlaying, audioContext, tCreated, uCtx>>
    /\ UNCHANGED <<retryVars, gateVars, chunkVars, ragVars, streamVars, histVars, eventVars, imageVars, callVars, libVars>>

\* close() completes: audioContext = null; isPlaying = false.  The sources
\* of the context stop.
CloseCompletes(c) ==
    /\ c \in tClosing
    /\ tClosing' = tClosing \ {c}
    /\ audioContext' = NoContext
    /\ isPlaying' = FALSE
    /\ uPc' = [u \in Utterances |-> IF uPc[u] = "playing" /\ uCtx[u] = c THEN "cut" ELSE uPc[u]]
    /\ UNCHANGED <<audioQueue, tCreated, uCtx, uStale>>
    /\ UNCHANGED <<retryVars, gateVars, chunkVars, ragVars, streamVars, histVars, eventVars, imageVars, callVars, libVars>>

TtsNext ==
    \/ \E u \in Utterances : speak(u)
    \/ \E u \in Utterances : GenerationPlays(u)
    \/ \E u \in Utterances : GenerationDropped(u)
    \/ \E u \in Utterances : GenerationFails(u)
    \/ \E u \in Utterances : PlaybackEnds(u)
    \/ \E u \in Utterances : CutPlaybackEnds(u)
    \/ cancel
    \/ \E c \in Contexts : CloseCompletes(c)

\* Every generateSpeech call is answered, every playback on a context that
\* is not closed reaches its end, and every close() completes.
TtsFairness ==
    /\ \A u \in Utterances :
          WF_vars(GenerationPlays(u) \/ GenerationDropped(u) \/ GenerationFails(u))
    /\ \A u \in Utterances : WF_vars(PlaybackEnds(u))
    /\ \A c \in Contexts : WF_vars(CloseCompletes(c))

(***************************************************************************)
(* Properties of ttsService (checked under SpecTts and SpecTtsFair)        *)
(***************************************************************************)

\* The utterances whose speech is being generated or played.
Active == {u \in Utterances : uPc[u] \in {"generating", "playing"}}

\* C34 (as claimed): at most one utterance is being synthesised or played at
\* any time.
C34_OneUtteranceAtATime == Cardinality(Active) <= 1

\* C34 (failing run): cancel() was called while the speech of an utterance
\* was generated, the close completed, and the next speak started a second
\* generation while the first is still in flight.
C34_TwoGenerating ==
    \E u, v \in Utterances :
        /\ u < v
        /\ uPc[u] = "generating" /\ uStale[u]
        /\ uPc[v] = "generating"
        /\ isPlaying

\* C36 (as claimed): an utterance passed to speak before a cancel() and not
\* yet playing at that cancel() does not start playing after it.
C36_NothingStalePlays == \A u \in Utterances : uStale[u] => uPc[u] # "playing"

\* C36 (failing run): the speech of an utterance was in flight at cancel();
\* after the close completed a later speak created a new context, and the
\* cancelled utterance plays on it.
C36_CancelledUtterancePlays ==
    \E u \in Utterances :
        /\ uStale[u]
        /\ uPc[u] = "playing"
        /\ uCtx[u] = audioContext
        /\ uCtx[u] > 1

\* C35 (as claimed): utterances leave the queue in the order in which speak
\* accepted them, and an utterance that waits in the queue is eventually
\* started, unless cancel removes it.
C35_QueueNeverStalls ==
    /\ [](\A u, v \in Utterances :
            (u < v /\ uPc[v] \notin {"new", "queued", "cancelled"}) => uPc[u] # "queued")
    /\ \A u \in Utterances : (uPc[u] = "queued") ~> (uPc[u] # "queued")

\* C35 (failing run): an utterance waits in the queue while nothing is
\* generated or played, isPlaying is false and no close is pending: only
\* another speak would start it.
C35_QueuedAndIdle ==
    /\ audioQueue # <<>>
    /\ ~isPlaying
    /\ Active = {}
    /\ tClosing = {}

(***************************************************************************)
(* DocumentLibrary: handleFileUpload and handleDelete on the `documents`   *)
(* prop, each handler with the list of the render in which it was called   *)
(***************************************************************************)

\* The sources listed at the start (text documents, indexed) and the source
\* the upload creates.
ListedDocs == {"doc-1", "doc-2"}
NewDoc     == "doc-3"
LibraryIds == ListedDocs \cup {NewDoc}

\* handleFileUpload is called with a file: setIndexingStatus, then
\* blobToBase64 for an image and processAndIndexFile for any other file.
handleFileUpload(image) ==
    /\ upPc = "idle"
    /\ upDocuments' = lDocuments
    /\ upPc' = IF image THEN "reading" ELSE "indexing"
    /\ UNCHANGED <<lDocuments, lIndexed, dlPc, dlDocuments>>
    /\ UNCHANGED <<retryVars, gateVars, chunkVars, ragVars, streamVars, histVars, eventVars, imageVars, callVars, ttsVars>>

\* processAndIndexFile resolves, the chunks are in the store:
\* onUpdateDocuments([...documents, newSource])
UploadIndexed ==
    /\ upPc = "indexing"
    /\ lIndexed' = lIndexed \cup {NewDoc}
    /\ lDocuments' = upDocuments \cup {NewDoc}
    /\ upPc' = "listed"
    /\ UNCHANGED <<upDocuments, dlPc, dlDocuments>>
    /\ UNCHANGED <<retryVars, gateVars, chunkVars, ragVars, streamVars, histVars, eventVars, imageVars, callVars, ttsVars>>

\* blobToBase64 resolves: onUpdateDocuments([...documents, newSource]); an
\* image has no chunks.
UploadImageRead ==
    /\ upPc = "reading"
    /\ lDocuments' = upDocuments \cup {NewDoc}
    /\ upPc' = "added"
    /\ UNCHANGED <<lIndexed, upDocuments, dlPc, dlDocuments>>
    /\ UNCHANGED <<retryVars, gateVars, chunkVars, ragVars, streamVars, histVars, eventVars, imageVars, callVars, ttsVars>>

\* blobToBase64 or processAndIndexFile rejects: the catch block.
UploadFails ==
    /\ upPc \in {"reading", "indexing"}
    /\ upPc' = "failed"
    /\ UNCHANGED <<lDocuments, lIndexed, upDocuments, dlPc, dlDocuments>>
    /\ UNCHANGED <<retryVars, gateVars, chunkVars, ragVars, streamVars, histVars, eventVars, imageVars, callVars, ttsVars>>

\* handleDelete(docId) for a listed document: the confirmation is shown (one
\* at a time).
handleDelete(s) ==
    /\ s \in lDocuments
    /\ dlPc[s] \in {"idle", "failed", "deleted"}
    /\ \A d \in LibraryIds : dlPc[d] # "confirm"
    /\ dlDocuments' = [dlDocuments EXCEPT ![s] = lDocuments]
    /\ dlPc' = [dlPc EXCEPT ![s] = "confirm"]
    /\ UNCHANGED <<lDocuments, lIndexed, upPc, upDocuments>>
    /\ UNCHANGED <<retryVars, gateVars, chunkVars, ragVars, streamVars, histVars, eventVars, imageVars, callVars, ttsVars>>

\* onCancel: onSetConfirmation(null)
onCancel(s) ==
    /\ dlPc[s] = "confirm"
    /\ dlPc' = [dlPc EXCEPT ![s] = "idle"]
    /\ UNCHANGED <<lDocuments, lIndexed, upPc, upDocuments, dlDocuments>>
    /\ UNCHANGED <<retryVars, gateVars, chunkVars, ragVars, streamVars, histVars, eventVars, imageVars, callVars, ttsVars>>

\* onConfirm: ragService.deleteSource(docId) is called.
onConfirm(s) ==
    /\ dlPc[s] = "confirm"
    /\ dlPc' = [dlPc EXCEPT ![s] = "deleting"]
    /\ UNCHANGED <<lDocuments, lIndexed, upPc, upDocuments, dlDocuments>>
    /\ UNCHANGED <<retryVars, gateVars, chunkVars, ragVars, streamVars, histVars, eventVars, imageVars, callVars, ttsVars>>

\* deleteSource resolves, the chunks are gone:
\* onUpdateDocuments(documents.filter(d => d.id !== docId))
DeleteResolves(s) ==
    /\ dlPc[s] = "deleting"
    /\ lIndexed' = lIndexed \ {s}
    /\ lDocuments' = dlDocuments[s] \ {s}
    /\ dlPc' = [dlPc EXCEPT ![s] = "deleted"]
    /\ UNCHANGED <<upPc, upDocuments, dlDocuments>>
    /\ UNCHANGED <<retryVars, gateVars, chunkVars, ragVars, streamVars, histVars, eventVars, imageVars, callVars, ttsVars>>

\* deleteSource rejects: the catch block, the list is not touched.
DeleteRejects(s) ==
    /\ dlPc[s] = "deleting"
    /\ dlPc' = [dlPc EXCEPT ![s] = "failed"]
    /\ UNCHANGED <<lDocuments, lIndexed, upPc, upDocuments, dlDocuments>>
    /\ UNCHANGED <<retryVars, gateVars, chunkVars, ragVars, streamVars, histVars, eventVars, imageVars, callVars, ttsVars>>

DocumentsNext ==
    \/ \E image \in BOOLEAN : handleFileUpload(image)
    \/ UploadIndexed
    \/ UploadImageRead
    \/ UploadFails
    \/ \E s \in LibraryIds : handleDelete(s)
    \/ \E s \in LibraryIds : onCancel(s)
    \/ \E s \in LibraryIds : onConfirm(s)
    \/ \E s \in LibraryIds : DeleteResolves(s)
    \/ \E s \in LibraryIds : DeleteRejects(s)

(***************************************************************************)
(* Properties of the document library (checked under SpecDocuments)        *)
(***************************************************************************)

\* No handler of the library is between its call and its completion.
LibraryQuiet ==
    /\ upPc \notin {"reading", "indexing"}
    /\ \A s \in LibraryIds : dlPc[s] \notin {"confirm", "deleting"}

\* C37 (as claimed): once the upload of a text file and the deletions have
\* completed, the list holds the new source and no source whose deletion
\* completed; every listed text document has its chunks in the store and
\* every indexed source is listed.
C37_NoUpdateLost ==
    (upPc = "listed" /\ LibraryQuiet)
    => /\ NewDoc \in lDocuments \/ dlPc[NewDoc] = "deleted"
       /\ \A s \in LibraryIds : dlPc[s] = "deleted" => s \notin lDocuments
       /\ lDocuments \subseteq lIndexed
       /\ lIndexed \subseteq lDocuments

\* C37 (failing run): "doc-1" was deleted while the upload was indexing; the
\* upload completed afterwards and the list shows "doc-1" again, without
\* chunks in the store.
C37_DeletedDocumentListedAgain ==
    /\ upPc = "listed"
    /\ LibraryQuiet
    /\ dlPc["doc-1"] = "deleted"
    /\ "doc-1" \in lDocuments
    /\ "doc-1" \notin lIndexed
    /\ NewDoc \in lDocuments

(***************************************************************************)
(* Specifications                                                          *)
(***************************************************************************)

\* withRetry is started with any mode, maxRetries and initialDelay; the other
\* components are at rest.
InitRetry ==
    /\ rMode \in {"generic", "fetch"}
    /\ rMax \in 0..RetryBound
    /\ rInit \in {1, JitterRange - 1, JitterRange, DefaultInitialDelay}
    /\ rAttempt = 0
    /\ rPc = "loop"
    /\ rHist = <<>>
    /\ rDelays = <<>>
    /\ rEnd = NoEnd
    /\ now = Epoch
    /\ lastRequestTimestamps = <<>>
    /\ cPc = [c \in Calls |-> "idle"]
    /\ cKind = [c \in Calls |-> "chat"]
    /\ cChar = [c \in Calls |-> NoChar]
    /\ cRate = [c \in Calls |-> 0]
    /\ cArrive = [c \in Calls |-> 0]
    /\ cLast = [c \in Calls |-> 0]
    /\ cLeave = [c \in Calls |-> 0]
    /\ text = <<>>
    /\ chunkSize = DefaultChunkSize
    /\ overlap = DefaultOverlap
    /\ i = 0
    /\ chunks = <<>>
    /\ starts = <<>>
    /\ kPc = "returned"
    /\ store = [s \in SourceIds |-> <<>>]
    /\ dPc = [s \in SourceIds |-> "idle"]
    /\ fConfig = TRUE
    /\ fSources = NoSourceIds
    /\ fTopK = DefaultTopK
    /\ fPc = "done"
    /\ fQuery = <<>>
    /\ fIdx = 0
    /\ allChunks = <<>>
    /\ fEmbedCalls = 0
    /\ fReads = <<>>
    /\ fDeleted = {}
    /\ fRaised = NoEnd
    /\ fEnd = NoEnd
    /\ cosA = <<>>
    /\ cosB = <<>>
    /\ cosPc = "done"
    /\ cosSim = ZeroSimilarity
    /\ cosSwap = ZeroSimilarity
    /\ documents = {}
    /\ pFile = <<>>
    /\ pSource = NoSource
    /\ pPc = "returned"
    /\ textChunks = <<>>
    /\ pIdx = 0
    /\ vectorChunks = <<>>
    /\ pLog = <<>>
    /\ pEnd = NoEnd
    /\ sService = NoConfig
    /\ sEndpoint = FALSE
    /\ sApiKey = FALSE
    /\ sDefaultAi = TRUE
    /\ sHistory = <<>>
    /\ nHistory = <<>>
    /\ nPath = "gemini"
    /\ nPc = "done"
    /\ nTurns = <<>>
    /\ eLines = <<>>
    /\ eWire = <<>>
    /\ ePos = 0
    /\ eBuffer = <<>>
    /\ eOut = <<>>
    /\ ePc = "returned"
    /\ gService = "pollinations"
    /\ gPrompt = <<"a">>
    /\ gEndpoint = FALSE
    /\ gPc = "returned"
    /\ gAdapters = <<"pollinations">>
    /\ gEnd = Returned(DirectUrl)
    /\ attempts = 0
    /\ hSubmits = 0
    /\ hPolls = 0
    /\ hDelays = <<>>
    /\ hSeen = {}
    /\ sAdapters = <<"gemini">>
    /\ lDocuments = ListedDocs
    /\ lIndexed = ListedDocs
    /\ upPc = "idle"
    /\ upDocuments = {}
    /\ dlPc = [s \in LibraryIds |-> "idle"]
    /\ dlDocuments = [s \in LibraryIds |-> {}]
    /\ audioQueue = <<>>
    /\ isPlaying = FALSE
    /\ audioContext = NoContext
    /\ tCreated = 0
    /\ tClosing = {}
    /\ uPc = [u \in Utterances |-> "new"]
    /\ uCtx = [u \in Utterances |-> NoContext]
    /\ uStale = [u \in Utterances |-> FALSE]
    /\ qPc = [c \in Calls |-> "none"]
    /\ qAttempt = [c \in Calls |-> 0]
    /\ qFrom = [c \in Calls |-> 0]
    /\ qSent = [c \in Calls |-> <<>>]
    /\ sPc = "settled"
    /\ sOut = <<>>
    /\ sSettled = "resolved"
    /\ sRequests = 0
    /\ sReads = 0
    /\ sFailure = NoEnd

SpecRetry == InitRetry /\ [][RetryNext]_vars

\* No request has been made yet; calls arrive at the gate one after the other
\* or while earlier ones are suspended.
InitGate ==
    /\ rMode = "generic"
    /\ rMax = DefaultMaxRetries
    /\ rInit = DefaultInitialDelay
    /\ rAttempt = 0
    /\ rPc = "returned"
    /\ rHist = <<>>
    /\ rDelays = <<>>
    /\ rEnd = NoEnd
    /\ now = Epoch
    /\ lastRequestTimestamps = <<>>
    /\ cPc = [c \in Calls |-> "idle"]
    /\ cKind = [c \in Calls |-> "chat"]
    /\ cChar = [c \in Calls |-> NoChar]
    /\ cRate = [c \in Calls |-> 0]
    /\ cArrive = [c \in Calls |-> 0]
    /\ cLast = [c \in Calls |-> 0]
    /\ cLeave = [c \in Calls |-> 0]
    /\ text = <<>>
    /\ chunkSize = DefaultChunkSize
    /\ overlap = DefaultOverlap
    /\ i = 0
    /\ chunks = <<>>
    /\ starts = <<>>
    /\ kPc = "returned"
    /\ store = [s \in SourceIds |-> <<>>]
    /\ dPc = [s \in SourceIds |-> "idle"]
    /\ fConfig = TRUE
    /\ fSources = NoSourceIds
    /\ fTopK = DefaultTopK
    /\ fPc = "done"
    /\ fQuery = <<>>
    /\ fIdx = 0
    /\ allChunks = <<>>
    /\ fEmbedCalls = 0
    /\ fReads = <<>>
    /\ fDeleted = {}
    /\ fRaised = NoEnd
    /\ fEnd = NoEnd
    /\ cosA = <<>>
    /\ cosB = <<>>
    /\ cosPc = "done"
    /\ cosSim = ZeroSimilarity
    /\ cosSwap = ZeroSimilarity
    /\ documents = {}
    /\ pFile = <<>>
    /\ pSource = NoSource
    /\ pPc = "returned"
    /\ textChunks = <<>>
    /\ pIdx = 0
    /\ vectorChunks = <<>>
    /\ pLog = <<>>
    /\ pEnd = NoEnd
    /\ sService = NoConfig
    /\ sEndpoint = FALSE
    /\ sApiKey = FALSE
    /\ sDefaultAi = TRUE
    /\ sHistory = <<>>
    /\ nHistory = <<>>
    /\ nPath = "gemini"
    /\ nPc = "done"
    /\ nTurns = <<>>
    /\ eLines = <<>>
    /\ eWire = <<>>
    /\ ePos = 0
    /\ eBuffer = <<>>
    /\ eOut = <<>>
    /\ ePc = "returned"
    /\ gService = "pollinations"
    /\ gPrompt = <<"a">>
    /\ gEndpoint = FALSE
    /\ gPc = "returned"
    /\ gAdapters = <<"pollinations">>
    /\ gEnd = Returned(DirectUrl)
    /\ attempts = 0
    /\ hSubmits = 0
    /\ hPolls = 0
    /\ hDelays = <<>>
    /\ hSeen = {}
    /\ sAdapters = <<"gemini">>
    /\ lDocuments = ListedDocs
    /\ lIndexed = ListedDocs
    /\ upPc = "idle"
    /\ upDocuments = {}
    /\ dlPc = [s \in LibraryIds |-> "idle"]
    /\ dlDocuments = [s \in LibraryIds |-> {}]
    /\ audioQueue = <<>>
    /\ isPlaying = FALSE
    /\ audioContext = NoContext
    /\ tCreated = 0
    /\ tClosing = {}
    /\ uPc = [u \in Utterances |-> "new"]
    /\ uCtx = [u \in Utterances |-> NoContext]
    /\ uStale = [u \in Utterances |-> FALSE]
    /\ qPc = [c \in Calls |-> "none"]
    /\ qAttempt = [c \in Calls |-> 0]
    /\ qFrom = [c \in Calls |-> 0]
    /\ qSent = [c \in Calls |-> <<>>]
    /\ sPc = "settled"
    /\ sOut = <<>>
    /\ sSettled = "resolved"
    /\ sRequests = 0
    /\ sReads = 0
    /\ sFailure = NoEnd

SpecGate == InitGate /\ [][GateNext]_vars

\* chunkText is called with any text, chunkSize and overlap of the bounds, or
\* with the long document and the default parameters.
InitChunk ==
    /\ rMode = "generic"
    /\ rMax = DefaultMaxRetries
    /\ rInit = DefaultInitialDelay
    /\ rAttempt = 0
    /\ rPc = "returned"
    /\ rHist = <<>>
    /\ rDelays = <<>>
    /\ rEnd = NoEnd
    /\ now = Epoch
    /\ lastRequestTimestamps = <<>>
    /\ cPc = [c \in Calls |-> "idle"]
    /\ cKind = [c \in Calls |-> "chat"]
    /\ cChar = [c \in Calls |-> NoChar]
    /\ cRate = [c \in Calls |-> 0]
    /\ cArrive = [c \in Calls |-> 0]
    /\ cLast = [c \in Calls |-> 0]
    /\ cLeave = [c \in Calls |-> 0]
    /\ \/ /\ text \in {TextOfLength(n) : n \in 0..MaxLen}
          /\ chunkSize \in 1..MaxChunk
          /\ overlap \in (0 - 1)..(MaxChunk + 1)
       \/ /\ text = LongDocument
          /\ chunkSize = DefaultChunkSize
          /\ overlap = DefaultOverlap
    /\ i = 0
    /\ chunks = <<>>
    /\ starts = <<>>
    /\ kPc = "loop"
    /\ store = [s \in SourceIds |-> <<>>]
    /\ dPc = [s \in SourceIds |-> "idle"]
    /\ fConfig = TRUE
    /\ fSources = NoSourceIds
    /\ fTopK = DefaultTopK
    /\ fPc = "done"
    /\ fQuery = <<>>
    /\ fIdx = 0
    /\ allChunks = <<>>
    /\ fEmbedCalls = 0
    /\ fReads = <<>>
    /\ fDeleted = {}
    /\ fRaised = NoEnd
    /\ fEnd = NoEnd
    /\ cosA = <<>>
    /\ cosB = <<>>
    /\ cosPc = "done"
    /\ cosSim = ZeroSimilarity
    /\ cosSwap = ZeroSimilarity
    /\ documents = {}
    /\ pFile = <<>>
    /\ pSource = NoSource
    /\ pPc = "returned"
    /\ textChunks = <<>>
    /\ pIdx = 0
    /\ vectorChunks = <<>>
    /\ pLog = <<>>
    /\ pEnd = NoEnd
    /\ sService = NoConfig
    /\ sEndpoint = FALSE
    /\ sApiKey = FALSE
    /\ sDefaultAi = TRUE
    /\ sHistory = <<>>
    /\ nHistory = <<>>
    /\ nPath = "gemini"
    /\ nPc = "done"
    /\ nTurns = <<>>
    /\ eLines = <<>>
    /\ eWire = <<>>
    /\ ePos = 0
    /\ eBuffer = <<>>
    /\ eOut = <<>>
    /\ ePc = "returned"
    /\ gService = "pollinations"
    /\ gPrompt = <<"a">>
    /\ gEndpoint = FALSE
    /\ gPc = "returned"
    /\ gAdapters = <<"pollinations">>
    /\ gEnd = Returned(DirectUrl)
    /\ attempts = 0
    /\ hSubmits = 0
    /\ hPolls = 0
    /\ hDelays = <<>>
    /\ hSeen = {}
    /\ sAdapters = <<"gemini">>
    /\ lDocuments = ListedDocs
    /\ lIndexed = ListedDocs
    /\ upPc = "idle"
    /\ upDocuments = {}
    /\ dlPc = [s \in LibraryIds |-> "idle"]
    /\ dlDocuments = [s \in LibraryIds |-> {}]
    /\ audioQueue = <<>>
    /\ isPlaying = FALSE
    /\ audioContext = NoContext
    /\ tCreated = 0
    /\ tClosing = {}
    /\ uPc = [u \in Utterances |-> "new"]
    /\ uCtx = [u \in Utterances |-> NoContext]
    /\ uStale = [u \in Utterances |-> FALSE]
    /\ qPc = [c \in Calls |-> "none"]
    /\ qAttempt = [c \in Calls |-> 0]
    /\ qFrom = [c \in Calls |-> 0]
    /\ qSent = [c \in Calls |-> <<>>]
    /\ sPc = "settled"
    /\ sOut = <<>>
    /\ sSettled = "resolved"
    /\ sRequests = 0
    /\ sReads = 0
    /\ sFailure = NoEnd

SpecChunk == InitChunk /\ [][ChunkNext]_vars

\* The loop of chunkText is not suspended between two iterations.
SpecChunkFair == SpecChunk /\ WF_vars(ChunkNext)

\* findRelevantContext is called once, for any character and topK, on any
\* store an earlier indexing can have left; no source is being deleted.
InitRetrieve ==
    /\ rMode = "generic"
    /\ rMax = DefaultMaxRetries
    /\ rInit = DefaultInitialDelay
    /\ rAttempt = 0
    /\ rPc = "returned"
    /\ rHist = <<>>
    /\ rDelays = <<>>
    /\ rEnd = NoEnd
    /\ now = Epoch
    /\ lastRequestTimestamps = <<>>
    /\ cPc = [c \in Calls |-> "idle"]
    /\ cKind = [c \in Calls |-> "chat"]
    /\ cChar = [c \in Calls |-> NoChar]
    /\ cRate = [c \in Calls |-> 0]
    /\ cArrive = [c \in Calls |-> 0]
    /\ cLast = [c \in Calls |-> 0]
    /\ cLeave = [c \in Calls |-> 0]
    /\ text = <<>>
    /\ chunkSize = DefaultChunkSize
    /\ overlap = DefaultOverlap
    /\ i = 0
    /\ chunks = <<>>
    /\ starts = <<>>
    /\ kPc = "returned"
    /\ store \in Stores
    /\ dPc = [s \in SourceIds |-> "idle"]
    /\ fConfig \in BOOLEAN
    /\ fSources \in {NoSourceIds} \cup SourceIdLists
    /\ fTopK \in 0..MaxTopK
    /\ fPc = "start"
    /\ fQuery = <<>>
    /\ fIdx = 0
    /\ allChunks = <<>>
    /\ fEmbedCalls = 0
    /\ fReads = <<>>
    /\ fDeleted = {}
    /\ fRaised = NoEnd
    /\ fEnd = NoEnd
    /\ cosA = <<>>
    /\ cosB = <<>>
    /\ cosPc = "done"
    /\ cosSim = ZeroSimilarity
    /\ cosSwap = ZeroSimilarity
    /\ documents = {}
    /\ pFile = <<>>
    /\ pSource = NoSource
    /\ pPc = "returned"
    /\ textChunks = <<>>
    /\ pIdx = 0
    /\ vectorChunks = <<>>
    /\ pLog = <<>>
    /\ pEnd = NoEnd
    /\ sService = NoConfig
    /\ sEndpoint = FALSE
    /\ sApiKey = FALSE
    /\ sDefaultAi = TRUE
    /\ sHistory = <<>>
    /\ nHistory = <<>>
    /\ nPath = "gemini"
    /\ nPc = "done"
    /\ nTurns = <<>>
    /\ eLines = <<>>
    /\ eWire = <<>>
    /\ ePos = 0
    /\ eBuffer = <<>>
    /\ eOut = <<>>
    /\ ePc = "returned"
    /\ gService = "pollinations"
    /\ gPrompt = <<"a">>
    /\ gEndpoint = FALSE
    /\ gPc = "returned"
    /\ gAdapters = <<"pollinations">>
    /\ gEnd = Returned(DirectUrl)
    /\ attempts = 0
    /\ hSubmits = 0
    /\ hPolls = 0
    /\ hDelays = <<>>
    /\ hSeen = {}
    /\ sAdapters = <<"gemini">>
    /\ lDocuments = ListedDocs
    /\ lIndexed = ListedDocs
    /\ upPc = "idle"
    /\ upDocuments = {}
    /\ dlPc = [s \in LibraryIds |-> "idle"]
    /\ dlDocuments = [s \in LibraryIds |-> {}]
    /\ audioQueue = <<>>
    /\ isPlaying = FALSE
    /\ audioContext = NoContext
    /\ tCreated = 0
    /\ tClosing = {}
    /\ uPc = [u \in Utterances |-> "new"]
    /\ uCtx = [u \in Utterances |-> NoContext]
    /\ uStale = [u \in Utterances |-> FALSE]
    /\ qPc = [c \in Calls |-> "none"]
    /\ qAttempt = [c \in Calls |-> 0]
    /\ qFrom = [c \in Calls |-> 0]
    /\ qSent = [c \in Calls |-> <<>>]
    /\ sPc = "settled"
    /\ sOut = <<>>
    /\ sSettled = "resolved"
    /\ sRequests = 0
    /\ sReads = 0
    /\ sFailure = NoEnd

SpecRetrieve == InitRetrieve /\ [][FindNext]_vars

\* processAndIndexFile is called once, for a file of any of the lengths, on an
\* empty store.
InitIndex ==
    /\ rMode = "generic"
    /\ rMax = DefaultMaxRetries
    /\ rInit = DefaultInitialDelay
    /\ rAttempt = 0
    /\ rPc = "returned"
    /\ rHist = <<>>
    /\ rDelays = <<>>
    /\ rEnd = NoEnd
    /\ now = Epoch
    /\ lastRequestTimestamps = <<>>
    /\ cPc = [c \in Calls |-> "idle"]
    /\ cKind = [c \in Calls |-> "chat"]
    /\ cChar = [c \in Calls |-> NoChar]
    /\ cRate = [c \in Calls |-> 0]
    /\ cArrive = [c \in Calls |-> 0]
    /\ cLast = [c \in Calls |-> 0]
    /\ cLeave = [c \in Calls |-> 0]
    /\ text = <<>>
    /\ chunkSize = DefaultChunkSize
    /\ overlap = DefaultOverlap
    /\ i = 0
    /\ chunks = <<>>
    /\ starts = <<>>
    /\ kPc = "returned"
    /\ store = [s \in SourceIds |-> <<>>]
    /\ dPc = [s \in SourceIds |-> "idle"]
    /\ fConfig = TRUE
    /\ fSources = NoSourceIds
    /\ fTopK = DefaultTopK
    /\ fPc = "done"
    /\ fQuery = <<>>
    /\ fIdx = 0
    /\ allChunks = <<>>
    /\ fEmbedCalls = 0
    /\ fReads = <<>>
    /\ fDeleted = {}
    /\ fRaised = NoEnd
    /\ fEnd = NoEnd
    /\ cosA = <<>>
    /\ cosB = <<>>
    /\ cosPc = "done"
    /\ cosSim = ZeroSimilarity
    /\ cosSwap = ZeroSimilarity
    /\ documents = {}
    /\ pFile \in {TextOfLength(n) : n \in FileLengths}
    /\ pSource = NoSource
    /\ pPc = "start"
    /\ textChunks = <<>>
    /\ pIdx = 0
    /\ vectorChunks = <<>>
    /\ pLog = <<>>
    /\ pEnd = NoEnd
    /\ sService = NoConfig
    /\ sEndpoint = FALSE
    /\ sApiKey = FALSE
    /\ sDefaultAi = TRUE
    /\ sHistory = <<>>
    /\ nHistory = <<>>
    /\ nPath = "gemini"
    /\ nPc = "done"
    /\ nTurns = <<>>
    /\ eLines = <<>>
    /\ eWire = <<>>
    /\ ePos = 0
    /\ eBuffer = <<>>
    /\ eOut = <<>>
    /\ ePc = "returned"
    /\ gService = "pollinations"
    /\ gPrompt = <<"a">>
    /\ gEndpoint = FALSE
    /\ gPc = "returned"
    /\ gAdapters = <<"pollinations">>
    /\ gEnd = Returned(DirectUrl)
    /\ attempts = 0
    /\ hSubmits = 0
    /\ hPolls = 0
    /\ hDelays = <<>>
    /\ hSeen = {}
    /\ sAdapters = <<"gemini">>
    /\ lDocuments = ListedDocs
    /\ lIndexed = ListedDocs
    /\ upPc = "idle"
    /\ upDocuments = {}
    /\ dlPc = [s \in LibraryIds |-> "idle"]
    /\ dlDocuments = [s \in LibraryIds |-> {}]
    /\ audioQueue = <<>>
    /\ isPlaying = FALSE
    /\ audioContext = NoContext
    /\ tCreated = 0
    /\ tClosing = {}
    /\ uPc = [u \in Utterances |-> "new"]
    /\ uCtx = [u \in Utterances |-> NoContext]
    /\ uStale = [u \in Utterances |-> FALSE]
    /\ qPc = [c \in Calls |-> "none"]
    /\ qAttempt = [c \in Calls |-> 0]
    /\ qFrom = [c \in Calls |-> 0]
    /\ qSent = [c \in Calls |-> <<>>]
    /\ sPc = "settled"
    /\ sOut = <<>>
    /\ sSettled = "resolved"
    /\ sRequests = 0
    /\ sReads = 0
    /\ sFailure = NoEnd

SpecIndex == InitIndex /\ [][IndexNext]_vars

\* The library lists one indexed source; a file is uploaded, listed sources
\* are deleted and findRelevantContext is called once, in any interleaving.
InitLibrary ==
    /\ rMode = "generic"
    /\ rMax = DefaultMaxRetries
    /\ rInit = DefaultInitialDelay
    /\ rAttempt = 0
    /\ rPc = "returned"
    /\ rHist = <<>>
    /\ rDelays = <<>>
    /\ rEnd = NoEnd
    /\ now = Epoch
    /\ lastRequestTimestamps = <<>>
    /\ cPc = [c \in Calls |-> "idle"]
    /\ cKind = [c \in Calls |-> "chat"]
    /\ cChar = [c \in Calls |-> NoChar]
    /\ cRate = [c \in Calls |-> 0]
    /\ cArrive = [c \in Calls |-> 0]
    /\ cLast = [c \in Calls |-> 0]
    /\ cLeave = [c \in Calls |-> 0]
    /\ text = <<>>
    /\ chunkSize = DefaultChunkSize
    /\ overlap = DefaultOverlap
    /\ i = 0
    /\ chunks = <<>>
    /\ starts = <<>>
    /\ kPc = "returned"
    /\ store \in {st \in Stores : Len(st["source-1"]) = 1 /\ st["source-2"] = <<>>}
    /\ dPc = [s \in SourceIds |-> "idle"]
    /\ fConfig \in BOOLEAN
    /\ fSources \in {NoSourceIds} \cup SourceIdLists
    /\ fTopK = DefaultTopK
    /\ fPc = "start"
    /\ fQuery = <<>>
    /\ fIdx = 0
    /\ allChunks = <<>>
    /\ fEmbedCalls = 0
    /\ fReads = <<>>
    /\ fDeleted = {}
    /\ fRaised = NoEnd
    /\ fEnd = NoEnd
    /\ cosA = <<>>
    /\ cosB = <<>>
    /\ cosPc = "done"
    /\ cosSim = ZeroSimilarity
    /\ cosSwap = ZeroSimilarity
    /\ documents = {"source-1"}
    /\ pFile = TextOfLength(DefaultChunkSize)
    /\ pSource = NoSource
    /\ pPc = "start"
    /\ textChunks = <<>>
    /\ pIdx = 0
    /\ vectorChunks = <<>>
    /\ pLog = <<>>
    /\ pEnd = NoEnd
    /\ sService = NoConfig
    /\ sEndpoint = FALSE
    /\ sApiKey = FALSE
    /\ sDefaultAi = TRUE
    /\ sHistory = <<>>
    /\ nHistory = <<>>
    /\ nPath = "gemini"
    /\ nPc = "done"
    /\ nTurns = <<>>
    /\ eLines = <<>>
    /\ eWire = <<>>
    /\ ePos = 0
    /\ eBuffer = <<>>
    /\ eOut = <<>>
    /\ ePc = "returned"
    /\ gService = "pollinations"
    /\ gPrompt = <<"a">>
    /\ gEndpoint = FALSE
    /\ gPc = "returned"
    /\ gAdapters = <<"pollinations">>
    /\ gEnd = Returned(DirectUrl)
    /\ attempts = 0
    /\ hSubmits = 0
    /\ hPolls = 0
    /\ hDelays = <<>>
    /\ hSeen = {}
    /\ sAdapters = <<"gemini">>
    /\ lDocuments = ListedDocs
    /\ lIndexed = ListedDocs
    /\ upPc = "idle"
    /\ upDocuments = {}
    /\ dlPc = [s \in LibraryIds |-> "idle"]
    /\ dlDocuments = [s \in LibraryIds |-> {}]
    /\ audioQueue = <<>>
    /\ isPlaying = FALSE
    /\ audioContext = NoContext
    /\ tCreated = 0
    /\ tClosing = {}
    /\ uPc = [u \in Utterances |-> "new"]
    /\ uCtx = [u \in Utterances |-> NoContext]
    /\ uStale = [u \in Utterances |-> FALSE]
    /\ qPc = [c \in Calls |-> "none"]
    /\ qAttempt = [c \in Calls |-> 0]
    /\ qFrom = [c \in Calls |-> 0]
    /\ qSent = [c \in Calls |-> <<>>]
    /\ sPc = "settled"
    /\ sOut = <<>>
    /\ sSettled = "resolved"
    /\ sRequests = 0
    /\ sReads = 0
    /\ sFailure = NoEnd

SpecLibrary == InitLibrary /\ [][LibraryNext]_vars

\* streamChatResponse is called once, for any service configuration, key
\* setup and history.
InitStream ==
    /\ rMode = "generic"
    /\ rMax = DefaultMaxRetries
    /\ rInit = DefaultInitialDelay
    /\ rAttempt = 0
    /\ rPc = "returned"
    /\ rHist = <<>>
    /\ rDelays = <<>>
    /\ rEnd = NoEnd
    /\ now = Epoch
    /\ lastRequestTimestamps = <<>>
    /\ cPc = [c \in Calls |-> "idle"]
    /\ cKind = [c \in Calls |-> "chat"]
    /\ cChar = [c \in Calls |-> NoChar]
    /\ cRate = [c \in Calls |-> 0]
    /\ cArrive = [c \in Calls |-> 0]
    /\ cLast = [c \in Calls |-> 0]
    /\ cLeave = [c \in Calls |-> 0]
    /\ text = <<>>
    /\ chunkSize = DefaultChunkSize
    /\ overlap = DefaultOverlap
    /\ i = 0
    /\ chunks = <<>>
    /\ starts = <<>>
    /\ kPc = "returned"
    /\ store = [s \in SourceIds |-> <<>>]
    /\ dPc = [s \in SourceIds |-> "idle"]
    /\ fConfig = TRUE
    /\ fSources = NoSourceIds
    /\ fTopK = DefaultTopK
    /\ fPc = "done"
    /\ fQuery = <<>>
    /\ fIdx = 0
    /\ allChunks = <<>>
    /\ fEmbedCalls = 0
    /\ fReads = <<>>
    /\ fDeleted = {}
    /\ fRaised = NoEnd
    /\ fEnd = NoEnd
    /\ cosA = <<>>
    /\ cosB = <<>>
    /\ cosPc = "done"
    /\ cosSim = ZeroSimilarity
    /\ cosSwap = ZeroSimilarity
    /\ documents = {}
    /\ pFile = <<>>
    /\ pSource = NoSource
    /\ pPc = "returned"
    /\ textChunks = <<>>
    /\ pIdx = 0
    /\ vectorChunks = <<>>
    /\ pLog = <<>>
    /\ pEnd = NoEnd
    /\ sService \in Services
    /\ sEndpoint \in BOOLEAN
    /\ sApiKey \in BOOLEAN
    /\ sDefaultAi \in BOOLEAN
    /\ sHistory \in Histories
    /\ nHistory = <<>>
    /\ nPath = "gemini"
    /\ nPc = "done"
    /\ nTurns = <<>>
    /\ eLines = <<>>
    /\ eWire = <<>>
    /\ ePos = 0
    /\ eBuffer = <<>>
    /\ eOut = <<>>
    /\ ePc = "returned"
    /\ gService = "pollinations"
    /\ gPrompt = <<"a">>
    /\ gEndpoint = FALSE
    /\ gPc = "returned"
    /\ gAdapters = <<"pollinations">>
    /\ gEnd = Returned(DirectUrl)
    /\ attempts = 0
    /\ hSubmits = 0
    /\ hPolls = 0
    /\ hDelays = <<>>
    /\ hSeen = {}
    /\ sAdapters = <<>>
    /\ lDocuments = ListedDocs
    /\ lIndexed = ListedDocs
    /\ upPc = "idle"
    /\ upDocuments = {}
    /\ dlPc = [s \in LibraryIds |-> "idle"]
    /\ dlDocuments = [s \in LibraryIds |-> {}]
    /\ audioQueue = <<>>
    /\ isPlaying = FALSE
    /\ audioContext = NoContext
    /\ tCreated = 0
    /\ tClosing = {}
    /\ uPc = [u \in Utterances |-> "new"]
    /\ uCtx = [u \in Utterances |-> NoContext]
    /\ uStale = [u \in Utterances |-> FALSE]
    /\ qPc = [c \in Calls |-> "none"]
    /\ qAttempt = [c \in Calls |-> 0]
    /\ qFrom = [c \in Calls |-> 0]
    /\ qSent = [c \in Calls |-> <<>>]
    /\ sPc = "idle"
    /\ sOut = <<>>
    /\ sSettled = "pending"
    /\ sRequests = 0
    /\ sReads = 0
    /\ sFailure = NoEnd

SpecStream == InitStream /\ [][StreamNext]_vars

\* calculateCosineSimilarity is called on any two vectors of the model; the
\* other components are at rest.
InitCosine ==
    /\ rMode = "generic"
    /\ rMax = DefaultMaxRetries
    /\ rInit = DefaultInitialDelay
    /\ rAttempt = 0
    /\ rPc = "returned"
    /\ rHist = <<>>
    /\ rDelays = <<>>
    /\ rEnd = NoEnd
    /\ now = Epoch
    /\ lastRequestTimestamps = <<>>
    /\ cPc = [c \in Calls |-> "idle"]
    /\ cKind = [c \in Calls |-> "chat"]
    /\ cChar = [c \in Calls |-> NoChar]
    /\ cRate = [c \in Calls |-> 0]
    /\ cArrive = [c \in Calls |-> 0]
    /\ cLast = [c \in Calls |-> 0]
    /\ cLeave = [c \in Calls |-> 0]
    /\ text = <<>>
    /\ chunkSize = DefaultChunkSize
    /\ overlap = DefaultOverlap
    /\ i = 0
    /\ chunks = <<>>
    /\ starts = <<>>
    /\ kPc = "returned"
    /\ store = [s \in SourceIds |-> <<>>]
    /\ dPc = [s \in SourceIds |-> "idle"]
    /\ fConfig = TRUE
    /\ fSources = NoSourceIds
    /\ fTopK = DefaultTopK
    /\ fPc = "done"
    /\ fQuery = <<>>
    /\ fIdx = 0
    /\ allChunks = <<>>
    /\ fEmbedCalls = 0
    /\ fReads = <<>>
    /\ fDeleted = {}
    /\ fRaised = NoEnd
    /\ fEnd = NoEnd
    /\ cosA \in Vectors
    /\ cosB \in Vectors
    /\ cosPc = "ready"
    /\ cosSim = ZeroSimilarity
    /\ cosSwap = ZeroSimilarity
    /\ documents = {}
    /\ pFile = <<>>
    /\ pSource = NoSource
    /\ pPc = "returned"
    /\ textChunks = <<>>
    /\ pIdx = 0
    /\ vectorChunks = <<>>
    /\ pLog = <<>>
    /\ pEnd = NoEnd
    /\ sService = NoConfig
    /\ sEndpoint = FALSE
    /\ sApiKey = FALSE
    /\ sDefaultAi = TRUE
    /\ sHistory = <<>>
    /\ nHistory = <<>>
    /\ nPath = "gemini"
    /\ nPc = "done"
    /\ nTurns = <<>>
    /\ eLines = <<>>
    /\ eWire = <<>>
    /\ ePos = 0
    /\ eBuffer = <<>>
    /\ eOut = <<>>
    /\ ePc = "returned"
    /\ gService = "pollinations"
    /\ gPrompt = <<"a">>
    /\ gEndpoint = FALSE
    /\ gPc = "returned"
    /\ gAdapters = <<"pollinations">>
    /\ gEnd = Returned(DirectUrl)
    /\ attempts = 0
    /\ hSubmits = 0
    /\ hPolls = 0
    /\ hDelays = <<>>
    /\ hSeen = {}
    /\ sAdapters = <<"gemini">>
    /\ lDocuments = ListedDocs
    /\ lIndexed = ListedDocs
    /\ upPc = "idle"
    /\ upDocuments = {}
    /\ dlPc = [s \in LibraryIds |-> "idle"]
    /\ dlDocuments = [s \in LibraryIds |-> {}]
    /\ audioQueue = <<>>
    /\ isPlaying = FALSE
    /\ audioContext = NoContext
    /\ tCreated = 0
    /\ tClosing = {}
    /\ uPc = [u \in Utterances |-> "new"]
    /\ uCtx = [u \in Utterances |-> NoContext]
    /\ uStale = [u \in Utterances |-> FALSE]
    /\ qPc = [c \in Calls |-> "none"]
    /\ qAttempt = [c \in Calls |-> 0]
    /\ qFrom = [c \in Calls |-> 0]
    /\ qSent = [c \in Calls |-> <<>>]
    /\ sPc = "settled"
    /\ sOut = <<>>
    /\ sSettled = "resolved"
    /\ sRequests = 0
    /\ sReads = 0
    /\ sFailure = NoEnd

SpecCosine == InitCosine /\ [][CosineNext]_vars

\* One adapter builds the turn sequence for any history of at most MaxHistory
\* messages.
InitHistory ==
    /\ rMode = "generic"
    /\ rMax = DefaultMaxRetries
    /\ rInit = DefaultInitialDelay
    /\ rAttempt = 0
    /\ rPc = "returned"
    /\ rHist = <<>>
    /\ rDelays = <<>>
    /\ rEnd = NoEnd
    /\ now = Epoch
    /\ lastRequestTimestamps = <<>>
    /\ cPc = [c \in Calls |-> "idle"]
    /\ cKind = [c \in Calls |-> "chat"]
    /\ cChar = [c \in Calls |-> NoChar]
    /\ cRate = [c \in Calls |-> 0]
    /\ cArrive = [c \in Calls |-> 0]
    /\ cLast = [c \in Calls |-> 0]
    /\ cLeave = [c \in Calls |-> 0]
    /\ text = <<>>
    /\ chunkSize = DefaultChunkSize
    /\ overlap = DefaultOverlap
    /\ i = 0
    /\ chunks = <<>>
    /\ starts = <<>>
    /\ kPc = "returned"
    /\ store = [s \in SourceIds |-> <<>>]
    /\ dPc = [s \in SourceIds |-> "idle"]
    /\ fConfig = TRUE
    /\ fSources = NoSourceIds
    /\ fTopK = DefaultTopK
    /\ fPc = "done"
    /\ fQuery = <<>>
    /\ fIdx = 0
    /\ allChunks = <<>>
    /\ fEmbedCalls = 0
    /\ fReads = <<>>
    /\ fDeleted = {}
    /\ fRaised = NoEnd
    /\ fEnd = NoEnd
    /\ cosA = <<>>
    /\ cosB = <<>>
    /\ cosPc = "done"
    /\ cosSim = ZeroSimilarity
    /\ cosSwap = ZeroSimilarity
    /\ documents = {}
    /\ pFile = <<>>
    /\ pSource = NoSource
    /\ pPc = "returned"
    /\ textChunks = <<>>
    /\ pIdx = 0
    /\ vectorChunks = <<>>
    /\ pLog = <<>>
    /\ pEnd = NoEnd
    /\ sService = NoConfig
    /\ sEndpoint = FALSE
    /\ sApiKey = FALSE
    /\ sDefaultAi = TRUE
    /\ sHistory = <<>>
    /\ nHistory \in HistoriesUpTo(MaxHistory)
    /\ nPath \in {"gemini", "openai"}
    /\ nPc = "ready"
    /\ nTurns = <<>>
    /\ eLines = <<>>
    /\ eWire = <<>>
    /\ ePos = 0
    /\ eBuffer = <<>>
    /\ eOut = <<>>
    /\ ePc = "returned"
    /\ gService = "pollinations"
    /\ gPrompt = <<"a">>
    /\ gEndpoint = FALSE
    /\ gPc = "returned"
    /\ gAdapters = <<"pollinations">>
    /\ gEnd = Returned(DirectUrl)
    /\ attempts = 0
    /\ hSubmits = 0
    /\ hPolls = 0
    /\ hDelays = <<>>
    /\ hSeen = {}
    /\ sAdapters = <<"gemini">>
    /\ lDocuments = ListedDocs
    /\ lIndexed = ListedDocs
    /\ upPc = "idle"
    /\ upDocuments = {}
    /\ dlPc = [s \in LibraryIds |-> "idle"]
    /\ dlDocuments = [s \in LibraryIds |-> {}]
    /\ audioQueue = <<>>
    /\ isPlaying = FALSE
    /\ audioContext = NoContext
    /\ tCreated = 0
    /\ tClosing = {}
    /\ uPc = [u \in Utterances |-> "new"]
    /\ uCtx = [u \in Utterances |-> NoContext]
    /\ uStale = [u \in Utterances |-> FALSE]
    /\ qPc = [c \in Calls |-> "none"]
    /\ qAttempt = [c \in Calls |-> 0]
    /\ qFrom = [c \in Calls |-> 0]
    /\ qSent = [c \in Calls |-> <<>>]
    /\ sPc = "settled"
    /\ sOut = <<>>
    /\ sSettled = "resolved"
    /\ sRequests = 0
    /\ sReads = 0
    /\ sFailure = NoEnd

SpecHistory == InitHistory /\ [][HistoryNext]_vars

\* The provider sends any stream of at most MaxLines lines, and the reads
\* deliver its characters in pieces of any length.
InitEvents ==
    /\ rMode = "generic"
    /\ rMax = DefaultMaxRetries
    /\ rInit = DefaultInitialDelay
    /\ rAttempt = 0
    /\ rPc = "returned"
    /\ rHist = <<>>
    /\ rDelays = <<>>
    /\ rEnd = NoEnd
    /\ now = Epoch
    /\ lastRequestTimestamps = <<>>
    /\ cPc = [c \in Calls |-> "idle"]
    /\ cKind = [c \in Calls |-> "chat"]
    /\ cChar = [c \in Calls |-> NoChar]
    /\ cRate = [c \in Calls |-> 0]
    /\ cArrive = [c \in Calls |-> 0]
    /\ cLast = [c \in Calls |-> 0]
    /\ cLeave = [c \in Calls |-> 0]
    /\ text = <<>>
    /\ chunkSize = DefaultChunkSize
    /\ overlap = DefaultOverlap
    /\ i = 0
    /\ chunks = <<>>
    /\ starts = <<>>
    /\ kPc = "returned"
    /\ store = [s \in SourceIds |-> <<>>]
    /\ dPc = [s \in SourceIds |-> "idle"]
    /\ fConfig = TRUE
    /\ fSources = NoSourceIds
    /\ fTopK = DefaultTopK
    /\ fPc = "done"
    /\ fQuery = <<>>
    /\ fIdx = 0
    /\ allChunks = <<>>
    /\ fEmbedCalls = 0
    /\ fReads = <<>>
    /\ fDeleted = {}
    /\ fRaised = NoEnd
    /\ fEnd = NoEnd
    /\ cosA = <<>>
    /\ cosB = <<>>
    /\ cosPc = "done"
    /\ cosSim = ZeroSimilarity
    /\ cosSwap = ZeroSimilarity
    /\ documents = {}
    /\ pFile = <<>>
    /\ pSource = NoSource
    /\ pPc = "returned"
    /\ textChunks = <<>>
    /\ pIdx = 0
    /\ vectorChunks = <<>>
    /\ pLog = <<>>
    /\ pEnd = NoEnd
    /\ sService = NoConfig
    /\ sEndpoint = FALSE
    /\ sApiKey = FALSE
    /\ sDefaultAi = TRUE
    /\ sHistory = <<>>
    /\ nHistory = <<>>
    /\ nPath = "gemini"
    /\ nPc = "done"
    /\ nTurns = <<>>
    /\ eLines \in LineSequences
    /\ eWire = EncodeAll(eLines)
    /\ ePos = 0
    /\ eBuffer = <<>>
    /\ eOut = <<>>
    /\ ePc = "reading"
    /\ gService = "pollinations"
    /\ gPrompt = <<"a">>
    /\ gEndpoint = FALSE
    /\ gPc = "returned"
    /\ gAdapters = <<"pollinations">>
    /\ gEnd = Returned(DirectUrl)
    /\ attempts = 0
    /\ hSubmits = 0
    /\ hPolls = 0
    /\ hDelays = <<>>
    /\ hSeen = {}
    /\ sAdapters = <<"gemini">>
    /\ lDocuments = ListedDocs
    /\ lIndexed = ListedDocs
    /\ upPc = "idle"
    /\ upDocuments = {}
    /\ dlPc = [s \in LibraryIds |-> "idle"]
    /\ dlDocuments = [s \in LibraryIds |-> {}]
    /\ audioQueue = <<>>
    /\ isPlaying = FALSE
    /\ audioContext = NoContext
    /\ tCreated = 0
    /\ tClosing = {}
    /\ uPc = [u \in Utterances |-> "new"]
    /\ uCtx = [u \in Utterances |-> NoContext]
    /\ uStale = [u \in Utterances |-> FALSE]
    /\ qPc = [c \in Calls |-> "none"]
    /\ qAttempt = [c \in Calls |-> 0]
    /\ qFrom = [c \in Calls |-> 0]
    /\ qSent = [c \in Calls |-> <<>>]
    /\ sPc = "settled"
    /\ sOut = <<>>
    /\ sSettled = "resolved"
    /\ sRequests = 0
    /\ sReads = 0
    /\ sFailure = NoEnd

SpecEvents == InitEvents /\ [][EventNext]_vars

\* The provider answers with one JSON document without event framing, and
\* the reads deliver its characters in pieces of any length.
InitWhole ==
    /\ rMode = "generic"
    /\ rMax = DefaultMaxRetries
    /\ rInit = DefaultInitialDelay
    /\ rAttempt = 0
    /\ rPc = "returned"
    /\ rHist = <<>>
    /\ rDelays = <<>>
    /\ rEnd = NoEnd
    /\ now = Epoch
    /\ lastRequestTimestamps = <<>>
    /\ cPc = [c \in Calls |-> "idle"]
    /\ cKind = [c \in Calls |-> "chat"]
    /\ cChar = [c \in Calls |-> NoChar]
    /\ cRate = [c \in Calls |-> 0]
    /\ cArrive = [c \in Calls |-> 0]
    /\ cLast = [c \in Calls |-> 0]
    /\ cLeave = [c \in Calls |-> 0]
    /\ text = <<>>
    /\ chunkSize = DefaultChunkSize
    /\ overlap = DefaultOverlap
    /\ i = 0
    /\ chunks = <<>>
    /\ starts = <<>>
    /\ kPc = "returned"
    /\ store = [s \in SourceIds |-> <<>>]
    /\ dPc = [s \in SourceIds |-> "idle"]
    /\ fConfig = TRUE
    /\ fSources = NoSourceIds
    /\ fTopK = DefaultTopK
    /\ fPc = "done"
    /\ fQuery = <<>>
    /\ fIdx = 0
    /\ allChunks = <<>>
    /\ fEmbedCalls = 0
    /\ fReads = <<>>
    /\ fDeleted = {}
    /\ fRaised = NoEnd
    /\ fEnd = NoEnd
    /\ cosA = <<>>
    /\ cosB = <<>>
    /\ cosPc = "done"
    /\ cosSim = ZeroSimilarity
    /\ cosSwap = ZeroSimilarity
    /\ documents = {}
    /\ pFile = <<>>
    /\ pSource = NoSource
    /\ pPc = "returned"
    /\ textChunks = <<>>
    /\ pIdx = 0
    /\ vectorChunks = <<>>
    /\ pLog = <<>>
    /\ pEnd = NoEnd
    /\ sService = NoConfig
    /\ sEndpoint = FALSE
    /\ sApiKey = FALSE
    /\ sDefaultAi = TRUE
    /\ sHistory = <<>>
    /\ nHistory = <<>>
    /\ nPath = "gemini"
    /\ nPc = "done"
    /\ nTurns = <<>>
    /\ eLines \in WholeBodies
    /\ eWire = EncodeAll(eLines)
    /\ ePos = 0
    /\ eBuffer = <<>>
    /\ eOut = <<>>
    /\ ePc = "reading"
    /\ gService = "pollinations"
    /\ gPrompt = <<"a">>
    /\ gEndpoint = FALSE
    /\ gPc = "returned"
    /\ gAdapters = <<"pollinations">>
    /\ gEnd = Returned(DirectUrl)
    /\ attempts = 0
    /\ hSubmits = 0
    /\ hPolls = 0
    /\ hDelays = <<>>
    /\ hSeen = {}
    /\ sAdapters = <<"gemini">>
    /\ lDocuments = ListedDocs
    /\ lIndexed = ListedDocs
    /\ upPc = "idle"
    /\ upDocuments = {}
    /\ dlPc = [s \in LibraryIds |-> "idle"]
    /\ dlDocuments = [s \in LibraryIds |-> {}]
    /\ audioQueue = <<>>
    /\ isPlaying = FALSE
    /\ audioContext = NoContext
    /\ tCreated = 0
    /\ tClosing = {}
    /\ uPc = [u \in Utterances |-> "new"]
    /\ uCtx = [u \in Utterances |-> NoContext]
    /\ uStale = [u \in Utterances |-> FALSE]
    /\ qPc = [c \in Calls |-> "none"]
    /\ qAttempt = [c \in Calls |-> 0]
    /\ qFrom = [c \in Calls |-> 0]
    /\ qSent = [c \in Calls |-> <<>>]
    /\ sPc = "settled"
    /\ sOut = <<>>
    /\ sSettled = "resolved"
    /\ sRequests = 0
    /\ sReads = 0
    /\ sFailure = NoEnd

SpecWhole == InitWhole /\ [][EventNext]_vars

\* Either no request has been made yet or an earlier call has left its
\* timestamp; calls arrive at the gate, leave it and make their provider
\* requests under withRetry while the clock runs.
InitGatedCall ==
    /\ rMode = "generic"
    /\ rMax = DefaultMaxRetries
    /\ rInit = DefaultInitialDelay
    /\ rAttempt = 0
    /\ rPc = "returned"
    /\ rHist = <<>>
    /\ rDelays = <<>>
    /\ rEnd = NoEnd
    /\ now = Epoch
    /\ lastRequestTimestamps \in {<<>>, [k \in {"char-1"} |-> Epoch]}
    /\ cPc = [c \in Calls |-> "idle"]
    /\ cKind = [c \in Calls |-> "chat"]
    /\ cChar = [c \in Calls |-> NoChar]
    /\ cRate = [c \in Calls |-> 0]
    /\ cArrive = [c \in Calls |-> 0]
    /\ cLast = [c \in Calls |-> 0]
    /\ cLeave = [c \in Calls |-> 0]
    /\ text = <<>>
    /\ chunkSize = DefaultChunkSize
    /\ overlap = DefaultOverlap
    /\ i = 0
    /\ chunks = <<>>
    /\ starts = <<>>
    /\ kPc = "returned"
    /\ store = [s \in SourceIds |-> <<>>]
    /\ dPc = [s \in SourceIds |-> "idle"]
    /\ fConfig = TRUE
    /\ fSources = NoSourceIds
    /\ fTopK = DefaultTopK
    /\ fPc = "done"
    /\ fQuery = <<>>
    /\ fIdx = 0
    /\ allChunks = <<>>
    /\ fEmbedCalls = 0
    /\ fReads = <<>>
    /\ fDeleted = {}
    /\ fRaised = NoEnd
    /\ fEnd = NoEnd
    /\ cosA = <<>>
    /\ cosB = <<>>
    /\ cosPc = "done"
    /\ cosSim = ZeroSimilarity
    /\ cosSwap = ZeroSimilarity
    /\ documents = {}
    /\ pFile = <<>>
    /\ pSource = NoSource
    /\ pPc = "returned"
    /\ textChunks = <<>>
    /\ pIdx = 0
    /\ vectorChunks = <<>>
    /\ pLog = <<>>
    /\ pEnd = NoEnd
    /\ sService = NoConfig
    /\ sEndpoint = FALSE
    /\ sApiKey = FALSE
    /\ sDefaultAi = TRUE
    /\ sHistory = <<>>
    /\ nHistory = <<>>
    /\ nPath = "gemini"
    /\ nPc = "done"
    /\ nTurns = <<>>
    /\ eLines = <<>>
    /\ eWire = <<>>
    /\ ePos = 0
    /\ eBuffer = <<>>
    /\ eOut = <<>>
    /\ ePc = "returned"
    /\ gService = "pollinations"
    /\ gPrompt = <<"a">>
    /\ gEndpoint = FALSE
    /\ gPc = "returned"
    /\ gAdapters = <<"pollinations">>
    /\ gEnd = Returned(DirectUrl)
    /\ attempts = 0
    /\ hSubmits = 0
    /\ hPolls = 0
    /\ hDelays = <<>>
    /\ hSeen = {}
    /\ sAdapters = <<"gemini">>
    /\ lDocuments = ListedDocs
    /\ lIndexed = ListedDocs
    /\ upPc = "idle"
    /\ upDocuments = {}
    /\ dlPc = [s \in LibraryIds |-> "idle"]
    /\ dlDocuments = [s \in LibraryIds |-> {}]
    /\ audioQueue = <<>>
    /\ isPlaying = FALSE
    /\ audioContext = NoContext
    /\ tCreated = 0
    /\ tClosing = {}
    /\ uPc = [u \in Utterances |-> "new"]
    /\ uCtx = [u \in Utterances |-> NoContext]
    /\ uStale = [u \in Utterances |-> FALSE]
    /\ qPc = [c \in Calls |-> "none"]
    /\ qAttempt = [c \in Calls |-> 0]
    /\ qFrom = [c \in Calls |-> 0]
    /\ qSent = [c \in Calls |-> <<>>]
    /\ sPc = "settled"
    /\ sOut = <<>>
    /\ sSettled = "resolved"
    /\ sRequests = 0
    /\ sReads = 0
    /\ sFailure = NoEnd

SpecGatedCall == InitGatedCall /\ [][GatedCallNext]_vars

\* The module has just been loaded: nothing is queued, nothing plays and no
\* AudioContext exists; speak and cancel are called at any time.
InitTts ==
    /\ rMode = "generic"
    /\ rMax = DefaultMaxRetries
    /\ rInit = DefaultInitialDelay
    /\ rAttempt = 0
    /\ rPc = "returned"
    /\ rHist = <<>>
    /\ rDelays = <<>>
    /\ rEnd = NoEnd
    /\ now = Epoch
    /\ lastRequestTimestamps = <<>>
    /\ cPc = [c \in Calls |-> "idle"]
    /\ cKind = [c \in Calls |-> "chat"]
    /\ cChar = [c \in Calls |-> NoChar]
    /\ cRate = [c \in Calls |-> 0]
    /\ cArrive = [c \in Calls |-> 0]
    /\ cLast = [c \in Calls |-> 0]
    /\ cLeave = [c \in Calls |-> 0]
    /\ text = <<>>
    /\ chunkSize = DefaultChunkSize
    /\ overlap = DefaultOverlap
    /\ i = 0
    /\ chunks = <<>>
    /\ starts = <<>>
    /\ kPc = "returned"
    /\ store = [s \in SourceIds |-> <<>>]
    /\ dPc = [s \in SourceIds |-> "idle"]
    /\ fConfig = TRUE
    /\ fSources = NoSourceIds
    /\ fTopK = DefaultTopK
    /\ fPc = "done"
    /\ fQuery = <<>>
    /\ fIdx = 0
    /\ allChunks = <<>>
    /\ fEmbedCalls = 0
    /\ fReads = <<>>
    /\ fDeleted = {}
    /\ fRaised = NoEnd
    /\ fEnd = NoEnd
    /\ cosA = <<>>
    /\ cosB = <<>>
    /\ cosPc = "done"
    /\ cosSim = ZeroSimilarity
    /\ cosSwap = ZeroSimilarity
    /\ documents = {}
    /\ pFile = <<>>
    /\ pSource = NoSource
    /\ pPc = "returned"
    /\ textChunks = <<>>
    /\ pIdx = 0
    /\ vectorChunks = <<>>
    /\ pLog = <<>>
    /\ pEnd = NoEnd
    /\ sService = NoConfig
    /\ sEndpoint = FALSE
    /\ sApiKey = FALSE
    /\ sDefaultAi = TRUE
    /\ sHistory = <<>>
    /\ nHistory = <<>>
    /\ nPath = "gemini"
    /\ nPc = "done"
    /\ nTurns = <<>>
    /\ eLines = <<>>
    /\ eWire = <<>>
    /\ ePos = 0
    /\ eBuffer = <<>>
    /\ eOut = <<>>
    /\ ePc = "returned"
    /\ gService = "pollinations"
    /\ gPrompt = <<"a">>
    /\ gEndpoint = FALSE
    /\ gPc = "returned"
    /\ gAdapters = <<"pollinations">>
    /\ gEnd = Returned(DirectUrl)
    /\ attempts = 0
    /\ hSubmits = 0
    /\ hPolls = 0
    /\ hDelays = <<>>
    /\ hSeen = {}
    /\ sAdapters = <<"gemini">>
    /\ lDocuments = ListedDocs
    /\ lIndexed = ListedDocs
    /\ upPc = "idle"
    /\ upDocuments = {}
    /\ dlPc = [s \in LibraryIds |-> "idle"]
    /\ dlDocuments = [s \in LibraryIds |-> {}]
    /\ audioQueue = <<>>
    /\ isPlaying = FALSE
    /\ audioContext = NoContext
    /\ tCreated = 0
    /\ tClosing = {}
    /\ uPc = [u \in Utterances |-> "new"]
    /\ uCtx = [u \in Utterances |-> NoContext]
    /\ uStale = [u \in Utterances |-> FALSE]
    /\ qPc = [c \in Calls |-> "none"]
    /\ qAttempt = [c \in Calls |-> 0]
    /\ qFrom = [c \in Calls |-> 0]
    /\ qSent = [c \in Calls |-> <<>>]
    /\ sPc = "settled"
    /\ sOut = <<>>
    /\ sSettled = "resolved"
    /\ sRequests = 0
    /\ sReads = 0
    /\ sFailure = NoEnd

SpecTts == InitTts /\ [][TtsNext]_vars

\* The environment answers: see TtsFairness.
SpecTtsFair == SpecTts /\ TtsFairness

\* The library lists two indexed text documents; one file is uploaded and
\* listed documents are deleted, in any interleaving.
InitDocuments ==
    /\ rMode = "generic"
    /\ rMax = DefaultMaxRetries
    /\ rInit = DefaultInitialDelay
    /\ rAttempt = 0
    /\ rPc = "returned"
    /\ rHist = <<>>
    /\ rDelays = <<>>
    /\ rEnd = NoEnd
    /\ now = Epoch
    /\ lastRequestTimestamps = <<>>
    /\ cPc = [c \in Calls |-> "idle"]
    /\ cKind = [c \in Calls |-> "chat"]
    /\ cChar = [c \in Calls |-> NoChar]
    /\ cRate = [c \in Calls |-> 0]
    /\ cArrive = [c \in Calls |-> 0]
    /\ cLast = [c \in Calls |-> 0]
    /\ cLeave = [c \in Calls |-> 0]
    /\ text = <<>>
    /\ chunkSize = DefaultChunkSize
    /\ overlap = DefaultOverlap
    /\ i = 0
    /\ chunks = <<>>
    /\ starts = <<>>
    /\ kPc = "returned"
    /\ store = [s \in SourceIds |-> <<>>]
    /\ dPc = [s \in SourceIds |-> "idle"]
    /\ fConfig = TRUE
    /\ fSources = NoSourceIds
    /\ fTopK = DefaultTopK
    /\ fPc = "done"
    /\ fQuery = <<>>
    /\ fIdx = 0
    /\ allChunks = <<>>
    /\ fEmbedCalls = 0
    /\ fReads = <<>>
    /\ fDeleted = {}
    /\ fRaised = NoEnd
    /\ fEnd = NoEnd
    /\ cosA = <<>>
    /\ cosB = <<>>
    /\ cosPc = "done"
    /\ cosSim = ZeroSimilarity
    /\ cosSwap = ZeroSimilarity
    /\ documents = {}
    /\ pFile = <<>>
    /\ pSource = NoSource
    /\ pPc = "returned"
    /\ textChunks = <<>>
    /\ pIdx = 0
    /\ vectorChunks = <<>>
    /\ pLog = <<>>
    /\ pEnd = NoEnd
    /\ sService = NoConfig
    /\ sEndpoint = FALSE
    /\ sApiKey = FALSE
    /\ sDefaultAi = TRUE
    /\ sHistory = <<>>
    /\ nHistory = <<>>
    /\ nPath = "gemini"
    /\ nPc = "done"
    /\ nTurns = <<>>
    /\ eLines = <<>>
    /\ eWire = <<>>
    /\ ePos = 0
    /\ eBuffer = <<>>
    /\ eOut = <<>>
    /\ ePc = "returned"
    /\ gService = "pollinations"
    /\ gPrompt = <<"a">>
    /\ gEndpoint = FALSE
    /\ gPc = "returned"
    /\ gAdapters = <<"pollinations">>
    /\ gEnd = Returned(DirectUrl)
    /\ attempts = 0
    /\ hSubmits = 0
    /\ hPolls = 0
    /\ hDelays = <<>>
    /\ hSeen = {}
    /\ sAdapters = <<"gemini">>
    /\ lDocuments = ListedDocs
    /\ lIndexed = ListedDocs
    /\ upPc = "idle"
    /\ upDocuments = {}
    /\ dlPc = [s \in LibraryIds |-> "idle"]
    /\ dlDocuments = [s \in LibraryIds |-> {}]
    /\ audioQueue = <<>>
    /\ isPlaying = FALSE
    /\ audioContext = NoContext
    /\ tCreated = 0
    /\ tClosing = {}
    /\ uPc = [u \in Utterances |-> "new"]
    /\ uCtx = [u \in Utterances |-> NoContext]
    /\ uStale = [u \in Utterances |-> FALSE]
    /\ qPc = [c \in Calls |-> "none"]
    /\ qAttempt = [c \in Calls |-> 0]
    /\ qFrom = [c \in Calls |-> 0]
    /\ qSent = [c \in Calls |-> <<>>]
    /\ sPc = "settled"
    /\ sOut = <<>>
    /\ sSettled = "resolved"
    /\ sRequests = 0
    /\ sReads = 0
    /\ sFailure = NoEnd

SpecDocuments == InitDocuments /\ [][DocumentsNext]_vars

\* One call is made: streamChatResponse for any service configuration, key
\* setup and history, or generateImageFromPrompt for any service and endpoint
\* setting; the component that is not called rests in the state a completed
\* call leaves.
InitDispatch ==
    /\ rMode = "generic"
    /\ rMax = DefaultMaxRetries
    /\ rInit = DefaultInitialDelay
    /\ rAttempt = 0
    /\ rPc = "returned"
    /\ rHist = <<>>
    /\ rDelays = <<>>
    /\ rEnd = NoEnd
    /\ now = Epoch
    /\ lastRequestTimestamps = <<>>
    /\ cPc = [c \in Calls |-> "idle"]
    /\ cKind = [c \in Calls |-> "chat"]
    /\ cChar = [c \in Calls |-> NoChar]
    /\ cRate = [c \in Calls |-> 0]
    /\ cArrive = [c \in Calls |-> 0]
    /\ cLast = [c \in Calls |-> 0]
    /\ cLeave = [c \in Calls |-> 0]
    /\ text = <<>>
    /\ chunkSize = DefaultChunkSize
    /\ overlap = DefaultOverlap
    /\ i = 0
    /\ chunks = <<>>
    /\ starts = <<>>
    /\ kPc = "returned"
    /\ store = [s \in SourceIds |-> <<>>]
    /\ dPc = [s \in SourceIds |-> "idle"]
    /\ fConfig = TRUE
    /\ fSources = NoSourceIds
    /\ fTopK = DefaultTopK
    /\ fPc = "done"
    /\ fQuery = <<>>
    /\ fIdx = 0
    /\ allChunks = <<>>
    /\ fEmbedCalls = 0
    /\ fReads = <<>>
    /\ fDeleted = {}
    /\ fRaised = NoEnd
    /\ fEnd = NoEnd
    /\ cosA = <<>>
    /\ cosB = <<>>
    /\ cosPc = "done"
    /\ cosSim = ZeroSimilarity
    /\ cosSwap = ZeroSimilarity
    /\ documents = {}
    /\ pFile = <<>>
    /\ pSource = NoSource
    /\ pPc = "returned"
    /\ textChunks = <<>>
    /\ pIdx = 0
    /\ vectorChunks = <<>>
    /\ pLog = <<>>
    /\ pEnd = NoEnd
    /\ nHistory = <<>>
    /\ nPath = "gemini"
    /\ nPc = "done"
    /\ nTurns = <<>>
    /\ eLines = <<>>
    /\ eWire = <<>>
    /\ ePos = 0
    /\ eBuffer = <<>>
    /\ eOut = <<>>
    /\ ePc = "returned"
    /\ attempts = 0
    /\ hSubmits = 0
    /\ hPolls = 0
    /\ hDelays = <<>>
    /\ hSeen = {}
    /\ lDocuments = ListedDocs
    /\ lIndexed = ListedDocs
    /\ upPc = "idle"
    /\ upDocuments = {}
    /\ dlPc = [s \in LibraryIds |-> "idle"]
    /\ dlDocuments = [s \in LibraryIds |-> {}]
    /\ audioQueue = <<>>
    /\ isPlaying = FALSE
    /\ audioContext = NoContext
    /\ tCreated = 0
    /\ tClosing = {}
    /\ uPc = [u \in Utterances |-> "new"]
    /\ uCtx = [u \in Utterances |-> NoContext]
    /\ uStale = [u \in Utterances |-> FALSE]
    /\ qPc = [c \in Calls |-> "none"]
    /\ qAttempt = [c \in Calls |-> 0]
    /\ qFrom = [c \in Calls |-> 0]
    /\ qSent = [c \in Calls |-> <<>>]
    /\ \/ /\ sService \in Services
          /\ sEndpoint \in BOOLEAN
          /\ sApiKey \in BOOLEAN
          /\ sDefaultAi \in BOOLEAN
          /\ sHistory \in Histories
          /\ sPc = "idle"
          /\ sSettled = "pending"
          /\ sAdapters = <<>>
          /\ gService = "pollinations"
          /\ gEndpoint = FALSE
          /\ gPrompt = <<"a">>
          /\ gPc = "returned"
          /\ gAdapters = <<"pollinations">>
          /\ gEnd = Returned(DirectUrl)
       \/ /\ gService \in ImageServices
          /\ gEndpoint \in BOOLEAN
          /\ gPrompt \in Prompts
          /\ gPc = "idle"
          /\ gAdapters = <<>>
          /\ gEnd = NoEnd
          /\ sService = NoConfig
          /\ sEndpoint = FALSE
          /\ sApiKey = FALSE
          /\ sDefaultAi = TRUE
          /\ sHistory = <<>>
          /\ sPc = "settled"
          /\ sSettled = "resolved"
          /\ sAdapters = <<"gemini">>
    /\ sOut = <<>>
    /\ sRequests = 0
    /\ sReads = 0
    /\ sFailure = NoEnd

SpecDispatch == InitDispatch /\ [][DispatchNext]_vars

\* Timers fire and requests are answered: a step of the image call that can
\* be taken is eventually taken.
SpecDispatchFair == SpecDispatch /\ WF_vars(ImageNext)

====
